---- MODULE Spec2Model ----
(***************************************************************************)
(* Network traffic accounting and persistence engine of komari-monitor-rs: *)
(* the calendar scheduler (calculate_next_reset_timestamp), state recovery *)
(* (initialize_network_state_and_offset), the accounting driver            *)
(* (network_saver) and the shared offset publisher (imp).                  *)
(*                                                                         *)
(* Strings the code parses (traffic_reset_day) are sequences of one-       *)
(* character strings, so that parsing is computed and not looked up.       *)
(* Instants are unix seconds; a calendar date is [year, month, day].       *)
(***************************************************************************)
EXTENDS Integers, Sequences, FiniteSets, TLC

VARIABLES
    \* ---- calendar scheduler exercised as a pure function -----------------
    s_pc,        \* "off" | "call" | "first" | "second"
    s_config,    \* the NetworkConfig passed to calculate_next_reset_timestamp
    s_now,       \* the instant passed to the first call
    s_first,     \* result of calculate_next_reset_timestamp(s_config, s_now)
    s_second,    \* result of the call made at the instant s_first.ts
    \* ---- host and process environment of the accounting driver ----------
    clock,             \* OffsetDateTime::now_utc(), unix seconds
    target_linux,      \* cfg!(target_os = "linux")
    host_boot_id,      \* content of /proc/sys/kernel/random/boot_id
    counter_tx,        \* filter_network(): cumulative transmitted bytes
    counter_rx,        \* filter_network(): cumulative received bytes
    file,              \* content of network_save_path
    args_config,       \* Args::network_config() of this process run
    \* ---- network_saver task ----------------------------------------------
    d_pc,              \* "off" | "init" | "cycle" | "stopped"
    network_info,      \* the NetworkInfo held by network_saver
    offset_tx,         \* local offset_tx of network_saver
    offset_rx,         \* local offset_rx of network_saver
    \* ---- shared offset publisher -----------------------------------------
    TRAFFIC_OFFSET_TX,
    TRAFFIC_OFFSET_RX,
    p_impl,            \* "atomic" (target_has_atomic = "64") | "rwlock"
    lock_writer,       \* RwLock: a writer holds the lock
    lock_readers,      \* RwLock: number of readers holding the lock
    w_pc, w_tx, w_rx,  \* update_traffic_offset(w_tx, w_rx) in progress
    r_pc, r_tx, r_rx,  \* realtime_network in progress and the pair it loaded
    r_allowed,         \* the complete pairs current at some point of the read
    complete_pair,     \* the last pair whose publication has completed
    updates,
    \* ---- history -----------------------------------------------------------
    rec,               \* what the last run of State Recovery saw and did
    smp,               \* "none" | "failed" (the last write of the sample loop
                       \* failed) | "retried" (a write succeeded after that)
    ticks, starts,
    \* ---- codec exercised as a pure function ------------------------------
    c_pc,        \* "off" | "record" | "encoded" | "edited" | "decoded"
    c_rec,       \* the NetworkInfo given to encode
    c_text,      \* the lines of the text given to decode
    c_edit,      \* how c_text differs from encode(c_rec)
    c_dec,       \* result of decode
    \* ---- the open file handle of network_save_path ----------------------
    f_pc,        \* "off" | "opened" | "loaded" | "cycle" | "stopped"
    f_data,      \* the characters of the file
    f_pos,       \* the cursor of the handle
    f_info,      \* the record given to the last call of save_network_info
    f_last,      \* "none" | "ok" | "err": how that call returned
    f_before,    \* length of the file when that call was made
    f_saves      \* calls of save_network_info that returned Ok

sched_vars == <<s_pc, s_config, s_now, s_first, s_second>>
host_vars  == <<clock, target_linux, host_boot_id, counter_tx,
                counter_rx, file, args_config>>
saver_vars == <<d_pc, network_info, offset_tx, offset_rx>>
pub_vars   == <<TRAFFIC_OFFSET_TX, TRAFFIC_OFFSET_RX>>
task_vars  == <<p_impl, lock_writer, lock_readers, w_pc, w_tx, w_rx,
                r_pc, r_tx, r_rx, r_allowed, complete_pair, updates>>
hist_vars  == <<rec, smp, ticks, starts>>
text_vars  == <<c_pc, c_rec, c_text, c_edit, c_dec>>
file_vars  == <<f_pc, f_data, f_pos, f_info, f_last, f_before, f_saves>>
codec_vars == <<text_vars, file_vars>>
vars == <<sched_vars, host_vars, saver_vars, pub_vars, task_vars, hist_vars,
          codec_vars>>

(***************************************************************************)
(* Bounds of the model.                                                    *)
(***************************************************************************)
\* the scheduler is explored for every date of 2023 .. 2023 + YearSpan
YearSpan == 1
\* the driver's clock advances at most MaxTicks times by TickStep
MaxTicks == 1
\* the raw transmit counter grows up to MaxRaw between two boots
MaxRaw == 1
\* process starts after the first one (plain or after a host boot)
MaxStarts == 1
\* calls of update_traffic_offset raced against the reporting path
MaxUpdates == 2
\* key=value lines left out of a text given to decode
MaxDropped == 2
\* rotations of the key=value lines of a text given to decode
MaxRotation == 3
\* save_network_info returns Ok at most MaxSaves times on one file handle
MaxSaves == 2

(***************************************************************************)
(* Calendar arithmetic of the `time` crate, as used by the scheduler.      *)
(***************************************************************************)
SecondsPerDay == 86400

is_leap_year(y) == (y % 4 = 0) /\ ((y % 100 # 0) \/ (y % 400 = 0))

\* length of a month according to the calendar (Date::from_calendar_date's check)
month_length(y, m) ==
    IF m = 2 THEN (IF is_leap_year(y) THEN 29 ELSE 28)
    ELSE IF m \in {4, 6, 9, 11} THEN 30 ELSE 31

MkDate(y, m, d) == [year |-> y, month |-> m, day |-> d]

\* Date::from_calendar_date(year, month, day).is_ok()
valid_calendar_date(y, m, d) ==
    /\ m \in 1..12
    /\ d >= 1
    /\ d <= month_length(y, m)

\* days since 1970-01-01 of a calendar date
to_day_number(date) ==
    LET y   == IF date.month <= 2 THEN date.year - 1 ELSE date.year
        era == y \div 400
        yoe == y - era * 400
        mp  == (date.month + 9) % 12
        doy == ((153 * mp + 2) \div 5) + date.day - 1
        doe == yoe * 365 + (yoe \div 4) - (yoe \div 100) + doy
    IN  era * 146097 + doe - 719468

\* calendar date of a day number
from_day_number(z) ==
    LET zz  == z + 719468
        era == zz \div 146097
        doe == zz - era * 146097
        yoe == (doe - (doe \div 1460) + (doe \div 36524) - (doe \div 146096)) \div 365
        doy == doe - (365 * yoe + (yoe \div 4) - (yoe \div 100))
        mp  == (5 * doy + 2) \div 153
        d   == doy - ((153 * mp + 2) \div 5) + 1
        m   == IF mp < 10 THEN mp + 3 ELSE mp - 9
        y   == yoe + era * 400
    IN  MkDate(IF m <= 2 THEN y + 1 ELSE y, m, d)

\* Weekday::number_from_monday of a date (1970-01-01 was a Thursday)
number_from_monday(date) == ((to_day_number(date) + 3) % 7) + 1

\* OffsetDateTime -> date() and unix_timestamp(); the offset is always UTC
date_of(ts) == from_day_number(ts \div SecondsPerDay)
midnight_timestamp(date) == to_day_number(date) * SecondsPerDay

\* Date::previous_day
previous_day(date) == from_day_number(to_day_number(date) - 1)

\* Month::next
month_next(m) == IF m = 12 THEN 1 ELSE m + 1

\* days_in_month(year, month): the day before the first day of the next month
days_in_month(year, month) ==
    LET next_month == month_next(month)
        next_year  == IF next_month = 1 THEN year + 1 ELSE year
        last_day   == previous_day(MkDate(next_year, next_month, 1))
    IN  last_day.day

Min(a, b) == IF a <= b THEN a ELSE b
Max(a, b) == IF a >= b THEN a ELSE b
(***************************************************************************)
(* String helpers of the Rust standard library, computed on sequences of   *)
(* characters.                                                             *)
(***************************************************************************)
UpperLetters == <<"A","B","C","D","E","F","G","H","I","J","K","L","M",
                  "N","O","P","Q","R","S","T","U","V","W","X","Y","Z">>
LowerLetters == <<"a","b","c","d","e","f","g","h","i","j","k","l","m",
                  "n","o","p","q","r","s","t","u","v","w","x","y","z">>

lower_char(c) ==
    IF \E i \in 1..26 : UpperLetters[i] = c
    THEN LowerLetters[CHOOSE i \in 1..26 : UpperLetters[i] = c]
    ELSE c

\* str::to_lowercase
to_lowercase(s) == [i \in 1..Len(s) |-> lower_char(s[i])]

Digits == <<"0","1","2","3","4","5","6","7","8","9">>
is_digit(c) == \E i \in 1..10 : Digits[i] = c
digit_value(c) == (CHOOSE i \in 1..10 : Digits[i] = c) - 1

RECURSIVE digits_value(_)
digits_value(s) ==
    IF Len(s) = 0 THEN 0
    ELSE digits_value(SubSeq(s, 1, Len(s) - 1)) * 10 + digit_value(s[Len(s)])

\* str::parse::<u8>: an optional '+', then one or more digits, value <= 255
parse_u8(s) ==
    LET body == IF Len(s) > 0 /\ s[1] = "+" THEN Tail(s) ELSE s
    IN  IF /\ Len(body) > 0
           /\ \A i \in 1..Len(body) : is_digit(body[i])
           /\ digits_value(body) <= 255
        THEN [ok |-> TRUE, val |-> digits_value(body)]
        ELSE [ok |-> FALSE, val |-> 0]

\* str::split('/') collected into a vector
RECURSIVE split_slash(_)
split_slash(s) ==
    IF \E i \in 1..Len(s) : s[i] = "/"
    THEN LET k == CHOOSE i \in 1..Len(s) :
                      s[i] = "/" /\ \A j \in 1..(i - 1) : s[j] # "/"
         IN  <<SubSeq(s, 1, k - 1)>> \o split_slash(SubSeq(s, k + 1, Len(s)))
    ELSE <<s>>

(***************************************************************************)
(* Calendar Scheduler: calculate_next_reset_timestamp.                     *)
(***************************************************************************)
SchedOk(date)  == [ok |-> TRUE,  date |-> date, ts |-> midnight_timestamp(date)]
SchedErr       == [ok |-> FALSE, date |-> MkDate(0, 0, 0), ts |-> 0]

\* the match on the lower-cased weekday token; 0 stands for the error arm
target_weekday(reset_day_str) ==
    LET t == to_lowercase(reset_day_str)
    IN  IF t \in {<<"m","o","n">>, <<"1">>} THEN 1
        ELSE IF t \in {<<"t","u","e">>, <<"2">>} THEN 2
        ELSE IF t \in {<<"w","e","d">>, <<"3">>} THEN 3
        ELSE IF t \in {<<"t","h","u">>, <<"4">>} THEN 4
        ELSE IF t \in {<<"f","r","i">>, <<"5">>} THEN 5
        ELSE IF t \in {<<"s","a","t">>, <<"6">>} THEN 6
        ELSE IF t \in {<<"s","u","n">>, <<"7">>} THEN 7
        ELSE 0

\* variant of week_days_to_add that adds 7 only to a negative difference
week_days_to_add_strict(target, now_date) ==
    LET d == target - number_from_monday(now_date)
    IN  IF d < 0 THEN d + 7 ELSE d

\* days_to_add of the Week arm
week_days_to_add(target, now_date) ==
    LET d == target - number_from_monday(now_date)
    IN  IF d <= 0 THEN d + 7 ELSE d

next_reset_week(reset_day_str, now_date) ==
    LET target == target_weekday(reset_day_str)
    IN  IF target = 0 THEN SchedErr
        ELSE SchedOk(from_day_number(to_day_number(now_date)
                                     + week_days_to_add(target, now_date)))

\* variant of month_target_date that stays in the current month on the reset day
month_target_date_same_day(reset_day, now_date) ==
    LET max_day_current_month == days_in_month(now_date.year, now_date.month)
        target_day  == Min(reset_day, max_day_current_month)
        target_date == IF now_date.day > target_day
                       THEN IF now_date.month = 12
                            THEN MkDate(now_date.year + 1, 1, 1)
                            ELSE MkDate(now_date.year, month_next(now_date.month), 1)
                       ELSE now_date
        max_day_target_month == days_in_month(target_date.year, target_date.month)
        final_day   == Min(reset_day, max_day_target_month)
    IN  MkDate(target_date.year, target_date.month, final_day)

\* variant of month_target_date that keeps the current month's clamped day
month_target_date_no_reclamp(reset_day, now_date) ==
    LET max_day_current_month == days_in_month(now_date.year, now_date.month)
        target_day  == Min(reset_day, max_day_current_month)
        target_date == IF now_date.day >= target_day
                       THEN IF now_date.month = 12
                            THEN MkDate(now_date.year + 1, 1, 1)
                            ELSE MkDate(now_date.year, month_next(now_date.month), 1)
                       ELSE now_date
    IN  MkDate(target_date.year, target_date.month, target_day)

\* variant of month_target_date that compares now.day with the unclamped day
month_target_date_unclamped_test(reset_day, now_date) ==
    LET target_date == IF now_date.day >= reset_day
                       THEN IF now_date.month = 12
                            THEN MkDate(now_date.year + 1, 1, 1)
                            ELSE MkDate(now_date.year, month_next(now_date.month), 1)
                       ELSE now_date
        max_day_target_month == days_in_month(target_date.year, target_date.month)
        final_day   == Min(reset_day, max_day_target_month)
    IN  MkDate(target_date.year, target_date.month, final_day)

\* the Month arm, after reset_day has been parsed and range-checked
month_target_date(reset_day, now_date) ==
    LET max_day_current_month == days_in_month(now_date.year, now_date.month)
        target_day  == Min(reset_day, max_day_current_month)
        target_date == IF now_date.day >= target_day
                       THEN IF now_date.month = 12
                            THEN MkDate(now_date.year + 1, 1, 1)
                            ELSE MkDate(now_date.year, month_next(now_date.month), 1)
                       ELSE now_date
        max_day_target_month == days_in_month(target_date.year, target_date.month)
        final_day   == Min(reset_day, max_day_target_month)
    IN  MkDate(target_date.year, target_date.month, final_day)

\* variant of next_reset_month without the range check on the parsed day
next_reset_month_no_range(reset_day_str, now_date) ==
    LET p == parse_u8(reset_day_str)
    IN  IF ~p.ok THEN SchedErr
        ELSE SchedOk(month_target_date(p.val, now_date))

next_reset_month(reset_day_str, now_date) ==
    LET p == parse_u8(reset_day_str)
    IN  IF ~p.ok THEN SchedErr
        ELSE IF ~(p.val \in 1..31) THEN SchedErr
        ELSE SchedOk(month_target_date(p.val, now_date))

\* variant of next_reset_year that moves to the next year only after the date
next_reset_year_strict(reset_day_str, now_date) ==
    LET parts == split_slash(reset_day_str)
    IN  IF Len(parts) # 2 THEN SchedErr
        ELSE
        LET month == parse_u8(parts[1])
            day   == parse_u8(parts[2])
        IN  IF ~month.ok \/ ~day.ok THEN SchedErr
            ELSE IF ~(month.val \in 1..12) THEN SchedErr
            ELSE IF ~valid_calendar_date(now_date.year, month.val, day.val) THEN SchedErr
            ELSE
            LET reset_date_this_year == MkDate(now_date.year, month.val, day.val)
                next_year == IF to_day_number(now_date) > to_day_number(reset_date_this_year)
                             THEN now_date.year + 1
                             ELSE now_date.year
            IN  IF ~valid_calendar_date(next_year, month.val, day.val) THEN SchedErr
                ELSE SchedOk(MkDate(next_year, month.val, day.val))

next_reset_year(reset_day_str, now_date) ==
    LET parts == split_slash(reset_day_str)
    IN  IF Len(parts) # 2 THEN SchedErr
        ELSE
        LET month == parse_u8(parts[1])
            day   == parse_u8(parts[2])
        IN  IF ~month.ok \/ ~day.ok THEN SchedErr
            ELSE IF ~(month.val \in 1..12) THEN SchedErr
            ELSE IF ~valid_calendar_date(now_date.year, month.val, day.val) THEN SchedErr
            ELSE
            LET reset_date_this_year == MkDate(now_date.year, month.val, day.val)
                next_year == IF to_day_number(now_date) >= to_day_number(reset_date_this_year)
                             THEN now_date.year + 1
                             ELSE now_date.year
            IN  IF ~valid_calendar_date(next_year, month.val, day.val) THEN SchedErr
                ELSE SchedOk(MkDate(next_year, month.val, day.val))

\* config: [traffic_period, traffic_reset_day, ...]; now: unix seconds (UTC)
calculate_next_reset_timestamp(config, now) ==
    LET now_date == date_of(now)
    IN  CASE config.traffic_period = "Week"  ->
                 next_reset_week(config.traffic_reset_day, now_date)
          [] config.traffic_period = "Month" ->
                 next_reset_month(config.traffic_reset_day, now_date)
          [] config.traffic_period = "Year"  ->
                 next_reset_year(config.traffic_reset_day, now_date)
(***************************************************************************)
(* NetworkConfig values.                                                   *)
(***************************************************************************)
MkConfig(period, reset_day) ==
    [disable_network_statistics |-> FALSE,
     network_interval           |-> 10,
     network_save_path          |-> "komari-network.conf",
     traffic_period             |-> period,
     traffic_reset_day          |-> reset_day]

NoConfig == MkConfig("Month", <<"1">>)

(***************************************************************************)
(* The scheduler as a pure function: inputs drawn from bounded sets.       *)
(***************************************************************************)
WeekSpecs  == { <<"m","o","n">>, <<"T","u","e">>, <<"3">>, <<"s","u","n">>,
                <<"7">>, <<"8">>, <<>>, <<"0">>, <<"m","o","n","d","a","y">> }
MonthSpecs == { <<"1">>, <<"1","5">>, <<"2","9">>, <<"3","0">>, <<"3","1">>,
                <<"0">>, <<"3","2">>, <<"x">>, <<"2","5","6">>, <<>> }
YearSpecs  == { <<"1","2","/","3","1">>, <<"0","1","/","0","1">>,
                <<"0","2","/","2","9">>, <<"0","2","/","3","0">>,
                <<"1","3","/","0","1">>, <<"6","/","1","5">>,
                <<"1","2","3","1">>, <<"1","/","2","/","3">>,
                <<"a","b","/","0","1">>, <<"0","0","/","1","0">>,
                <<"1","2","/">> }

SchedConfigs ==
    {MkConfig("Week", d)  : d \in WeekSpecs}  \cup
    {MkConfig("Month", d) : d \in MonthSpecs} \cup
    {MkConfig("Year", d)  : d \in YearSpecs}

SchedYears  == 2023..(2023 + YearSpan)
TimesOfDay  == {0, 43200, 86399}
SchedDates ==
    { dt \in [year : SchedYears, month : 1..12, day : 1..31] :
        dt.day <= month_length(dt.year, dt.month) }
SchedNows == { midnight_timestamp(dt) + t : dt \in SchedDates, t \in TimesOfDay }

SchedIdle ==
    /\ s_pc = "off"
    /\ s_config = NoConfig
    /\ s_now = 0
    /\ s_first = SchedErr
    /\ s_second = SchedErr

SchedInit ==
    /\ s_pc = "call"
    /\ s_config \in SchedConfigs
    /\ s_now \in SchedNows
    /\ s_first = SchedErr
    /\ s_second = SchedErr

\* next_reset(period, spec, now)
ScheduleFirst ==
    /\ s_pc = "call"
    /\ s_first' = calculate_next_reset_timestamp(s_config, s_now)
    /\ s_pc' = "first"
    /\ UNCHANGED <<s_config, s_now, s_second, host_vars, saver_vars, pub_vars, task_vars, hist_vars,
                   codec_vars>>

\* next_reset(period, spec, next_reset(period, spec, now))
ScheduleAgain ==
    /\ s_pc = "first"
    /\ s_first.ok
    /\ s_second' = calculate_next_reset_timestamp(s_config, s_first.ts)
    /\ s_pc' = "second"
    /\ UNCHANGED <<s_config, s_now, s_first, host_vars, saver_vars, pub_vars, task_vars, hist_vars,
                   codec_vars>>

SchedNext == ScheduleFirst \/ ScheduleAgain


(***************************************************************************)
(* Properties of the Calendar Scheduler (checked under SpecSched).         *)
(***************************************************************************)
SchedCalled == s_pc \in {"first", "second"}

\* C7: whenever the scheduler accepts (period, spec, now) its result is
\* strictly later than now; called at an instant that is itself a reset
\* instant (the second call) it returns a strictly later occurrence.
SchedulerForward ==
    /\ (SchedCalled /\ s_first.ok) => s_first.ts > s_now
    /\ (s_pc = "second" /\ s_second.ok) => s_second.ts > s_first.ts

\* C7 witness: a call made exactly at a reset instant returned a later one
SchedulerForwardWitness ==
    /\ s_pc = "second"
    /\ s_config.traffic_period = "Month"
    /\ s_second.ok
    /\ s_second.ts > s_first.ts

\* C8: applying the scheduler to its own result succeeds and returns a
\* strictly later instant.
SchedulerIdempotentBoundary ==
    s_pc = "second" => (s_second.ok /\ s_second.ts > s_first.ts)

\* the Month rule stated on the calendar: clamp in the current month, else
\* clamp in the following month
MonthRuleDate(d, nd) ==
    LET c == Min(d, month_length(nd.year, nd.month))
    IN  IF nd.day < c
        THEN MkDate(nd.year, nd.month, c)
        ELSE LET ny == IF nd.month = 12 THEN nd.year + 1 ELSE nd.year
                 nm == IF nd.month = 12 THEN 1 ELSE nd.month + 1
             IN  MkDate(ny, nm, Min(d, month_length(ny, nm)))

MonthSpecDay == digits_value(s_config.traffic_reset_day)

MonthSpecAccepted ==
    /\ s_config.traffic_period = "Month"
    /\ s_config.traffic_reset_day \in
         { <<"1">>, <<"1","5">>, <<"2","9">>, <<"3","0">>, <<"3","1">> }

\* C9: in Month mode with reset day d in 1..31 the result is midnight of day
\* min(d, days_in(current month)) of the current month when now.day is below
\* that day, otherwise midnight of day min(d, days_in(next month)) of the next
\* month (December rolls to January); d = 31 from 2024-02-15 gives 2024-02-29
\* and from 2024-02-29 gives 2024-03-31.
MonthRule ==
    /\ (SchedCalled /\ MonthSpecAccepted) =>
         /\ s_first.ok
         /\ s_first.ts % SecondsPerDay = 0
         /\ date_of(s_first.ts) = MonthRuleDate(MonthSpecDay, date_of(s_now))
    /\ (s_pc = "second" /\ MonthSpecAccepted) =>
         /\ s_second.ok
         /\ s_second.ts % SecondsPerDay = 0
         /\ date_of(s_second.ts) = MonthRuleDate(MonthSpecDay, date_of(s_first.ts))
    /\ (SchedCalled /\ s_config = MkConfig("Month", <<"3","1">>)
          /\ s_now = 1707955200) => s_first.ts = 1709164800
    /\ (SchedCalled /\ s_config = MkConfig("Month", <<"3","1">>)
          /\ s_now = 1709164800) => s_first.ts = 1711843200

\* C9 witness: day 31 asked from 2024-02-15, clamped to 2024-02-29, and the
\* call from there was made
MonthRuleWitness ==
    /\ s_pc = "second"
    /\ s_config = MkConfig("Month", <<"3","1">>)
    /\ s_now = 1707955200
    /\ s_first.ts = 1709164800
    /\ s_second.ts = 1711843200

\* weekday number (Monday = 1) of the accepted weekday tokens of the inputs
WeekSpecNumber ==
    CASE s_config.traffic_reset_day = <<"m","o","n">> -> 1
      [] s_config.traffic_reset_day = <<"T","u","e">> -> 2
      [] s_config.traffic_reset_day = <<"3">>         -> 3
      [] s_config.traffic_reset_day = <<"s","u","n">> -> 7
      [] s_config.traffic_reset_day = <<"7">>         -> 7
      [] OTHER -> 0

WeekDelta == (s_first.ts - (s_now - (s_now % SecondsPerDay))) \div SecondsPerDay

\* C10: in Week mode the result is midnight of now.date + delta days, where
\* delta = target weekday - current weekday, plus 7 when that is <= 0; so
\* delta is in 1..7, the same weekday gives 7 and mon from a Wednesday gives 5.
WeekRule ==
    (SchedCalled /\ s_config.traffic_period = "Week" /\ WeekSpecNumber # 0) =>
        LET cur  == number_from_monday(date_of(s_now))
            diff == WeekSpecNumber - cur
        IN  /\ s_first.ok
            /\ s_first.ts % SecondsPerDay = 0
            /\ WeekDelta = (IF diff <= 0 THEN diff + 7 ELSE diff)
            /\ WeekDelta \in 1..7
            /\ (cur = WeekSpecNumber => WeekDelta = 7)
            /\ (WeekSpecNumber = 1 /\ cur = 3 => WeekDelta = 5)
            /\ number_from_monday(date_of(s_first.ts)) = WeekSpecNumber

\* C10 witness: mon asked on Wednesday 2024-02-28 gives Monday 2024-03-04
WeekRuleWitness ==
    /\ s_pc = "first"
    /\ s_config = MkConfig("Week", <<"m","o","n">>)
    /\ s_now = 1709078400 + 43200
    /\ s_first.ts = 1709510400

\* month and day of the MM/DD specs of the inputs that name a month in 1..12
YearSpecMonthDay ==
    CASE s_config.traffic_reset_day = <<"1","2","/","3","1">> -> <<12, 31>>
      [] s_config.traffic_reset_day = <<"0","1","/","0","1">> -> <<1, 1>>
      [] s_config.traffic_reset_day = <<"0","2","/","2","9">> -> <<2, 29>>
      [] s_config.traffic_reset_day = <<"6","/","1","5">>     -> <<6, 15>>
      [] OTHER -> <<0, 0>>

\* MM/DD exists in year y
YearSpecExistsIn(y) ==
    /\ YearSpecMonthDay[1] # 0
    /\ YearSpecMonthDay[2] <= month_length(y, YearSpecMonthDay[1])

\* now.date is before MM/DD of now's year, compared as (month, day)
BeforeYearSpec(nd) ==
    \/ nd.month < YearSpecMonthDay[1]
    \/ nd.month = YearSpecMonthDay[1] /\ nd.day < YearSpecMonthDay[2]

\* C11: in Year mode with spec MM/DD the result is midnight of MM/DD in the
\* current year when now.date is before that date and midnight of MM/DD in the
\* next year when now.date is on or after it (whenever MM/DD exists in the
\* years concerned); 12/31 from 2024-06-01 gives 2024-12-31 and 01/01 from
\* 2024-06-01 gives 2025-01-01.
YearRule ==
    /\ (SchedCalled /\ s_config.traffic_period = "Year"
          /\ YearSpecExistsIn(date_of(s_now).year)) =>
         LET nd == date_of(s_now)
         IN  /\ BeforeYearSpec(nd) =>
                   /\ s_first.ok
                   /\ s_first.ts % SecondsPerDay = 0
                   /\ date_of(s_first.ts) =
                          MkDate(nd.year, YearSpecMonthDay[1], YearSpecMonthDay[2])
             /\ (~BeforeYearSpec(nd) /\ YearSpecExistsIn(nd.year + 1)) =>
                   /\ s_first.ok
                   /\ s_first.ts % SecondsPerDay = 0
                   /\ date_of(s_first.ts) =
                          MkDate(nd.year + 1, YearSpecMonthDay[1], YearSpecMonthDay[2])
    /\ (SchedCalled /\ s_config = MkConfig("Year", <<"1","2","/","3","1">>)
          /\ s_now = 1717200000) => s_first.ts = 1735603200
    /\ (SchedCalled /\ s_config = MkConfig("Year", <<"0","1","/","0","1">>)
          /\ s_now = 1717200000) => s_first.ts = 1735689600

\* C11 witness: 01/01 asked on 2024-06-01 gave 2025-01-01, and 12/31 asked
\* on its own day gave the next year's
YearRuleWitness ==
    /\ s_pc = "second"
    /\ s_config.traffic_period = "Year"
    /\ \/ /\ s_config.traffic_reset_day = <<"0","1","/","0","1">>
          /\ s_now = 1717200000
          /\ s_first.ts = 1735689600
       \/ /\ s_config.traffic_reset_day = <<"1","2","/","3","1">>
          /\ s_now = 1735603200
          /\ s_first.ts = 1735603200 + 365 * SecondsPerDay

\* the inputs whose reset_spec cannot be parsed for their period
UnparsableConfigs ==
    {MkConfig("Week", d) : d \in { <<"8">>, <<"0">>, <<>>,
                                   <<"m","o","n","d","a","y">> }} \cup
    {MkConfig("Month", d) : d \in { <<"0">>, <<"3","2">>, <<"x">>,
                                    <<"2","5","6">>, <<>> }} \cup
    {MkConfig("Year", d) : d \in { <<"1","3","/","0","1">>, <<"1","2","3","1">>,
                                   <<"1","/","2","/","3">>,
                                   <<"a","b","/","0","1">>,
                                   <<"0","0","/","1","0">>, <<"1","2","/">> }}

\* C12: the scheduler returns an error and no timestamp when reset_spec cannot
\* be parsed for the period: a weekday token outside mon..sun / 1..7 in Week
\* mode, a non-number or a number outside 1..31 in Month mode, and in Year
\* mode a string that is not two '/'-separated numbers or whose month is
\* outside 1..12.
SchedulerRejects ==
    (SchedCalled /\ s_config \in UnparsableConfigs) =>
        /\ ~s_first.ok
        /\ s_first = SchedErr
        /\ s_pc = "first"

\* C12 witness: the call with a month value of 13 was made and failed
SchedulerRejectsWitness ==
    /\ s_pc = "first"
    /\ s_config = MkConfig("Year", <<"1","3","/","0","1">>)
    /\ ~s_first.ok
(***************************************************************************)
(* Persisted record (NetworkInfo) and its file.                            *)
(*                                                                         *)
(* The file is the map from the keys of its key=value lines to their       *)
(* values; a numeric value that does not parse as unsigned is a negative   *)
(* number.  The empty map is the empty file.                               *)
(*                                                                         *)
(* i64::MIN is scaled to the integer range of the model checker; byte      *)
(* counts stay far below its magnitude.                                    *)
(***************************************************************************)
I64_MIN == -1073741824

SentinelGeneric == I64_MIN
SentinelReboot  == I64_MIN + 1
SentinelFresh   == I64_MIN + 2
Sentinels == {SentinelGeneric, SentinelReboot, SentinelFresh}

MkInfo(config, boot_id, tx, rx, next_reset, off_tx, off_rx) ==
    [config               |-> config,
     boot_id              |-> boot_id,
     cycle_total_tx       |-> tx,
     cycle_total_rx       |-> rx,
     next_reset_timestamp |-> next_reset,
     offset_tx            |-> off_tx,
     offset_rx            |-> off_rx]

NoInfo == MkInfo(NoConfig, "", 0, 0, 0, 0, 0)

EmptyFile == [k \in {} |-> 0]

\* NetworkInfo::encode: one line per field
encode(info) ==
    [k \in {"disable_network_statistics", "network_interval", "network_save_path",
            "traffic_period", "traffic_reset_day", "boot_id", "cycle_total_tx",
            "cycle_total_rx", "next_reset_timestamp", "offset_tx", "offset_rx"} |->
        CASE k = "disable_network_statistics" -> info.config.disable_network_statistics
          [] k = "network_interval"           -> info.config.network_interval
          [] k = "network_save_path"          -> info.config.network_save_path
          [] k = "traffic_period"             -> info.config.traffic_period
          [] k = "traffic_reset_day"          -> info.config.traffic_reset_day
          [] k = "boot_id"                    -> info.boot_id
          [] k = "cycle_total_tx"             -> info.cycle_total_tx
          [] k = "cycle_total_rx"             -> info.cycle_total_rx
          [] k = "next_reset_timestamp"       -> info.next_reset_timestamp
          [] k = "offset_tx"                  -> info.offset_tx
          [] k = "offset_rx"                  -> info.offset_rx]

Has(input, key) == key \in DOMAIN input

\* variant of DecodeRequiredKeys in which the period fields are required too
DecodeRequiredKeys_with_period ==
    {"disable_network_statistics", "network_interval", "network_save_path",
     "traffic_period", "traffic_reset_day",
     "boot_id", "cycle_total_tx", "cycle_total_rx", "next_reset_timestamp"}

\* the keys whose absence makes decode fail
DecodeRequiredKeys ==
    {"disable_network_statistics", "network_interval", "network_save_path",
     "boot_id", "cycle_total_tx", "cycle_total_rx", "next_reset_timestamp"}

\* variant of default_offset that uses the fresh-file sentinel
default_offset_fresh == I64_MIN + 2

\* the initial value of offset_tx and offset_rx in decode, kept when the key
\* is absent
default_offset == I64_MIN

\* NetworkInfo::decode
decode(input) ==
    IF /\ \A k \in DecodeRequiredKeys : Has(input, k)
       /\ input["network_interval"] >= 0
       /\ input["cycle_total_tx"] >= 0
       /\ input["cycle_total_rx"] >= 0
    THEN [ok   |-> TRUE,
          info |-> MkInfo(
              [disable_network_statistics |-> input["disable_network_statistics"],
               network_interval           |-> input["network_interval"],
               network_save_path          |-> input["network_save_path"],
               traffic_period             |->
                   IF Has(input, "traffic_period")
                      /\ input["traffic_period"] \in {"Week", "Month", "Year"}
                   THEN input["traffic_period"] ELSE "Month",
               traffic_reset_day          |->
                   IF Has(input, "traffic_reset_day")
                   THEN input["traffic_reset_day"] ELSE <<"1">>],
              input["boot_id"],
              input["cycle_total_tx"],
              input["cycle_total_rx"],
              input["next_reset_timestamp"],
              IF Has(input, "offset_tx") THEN input["offset_tx"] ELSE default_offset,
              IF Has(input, "offset_rx") THEN input["offset_rx"] ELSE default_offset)]
    ELSE [ok |-> FALSE, info |-> NoInfo]

\* variant of parse_old_format_for_migration that is content with one key
parse_old_format_either(input) ==
    IF \/ (Has(input, "source_tx") /\ input["source_tx"] >= 0)
       \/ (Has(input, "source_rx") /\ input["source_rx"] >= 0)
    THEN [some |-> TRUE,
          tx |-> IF Has(input, "source_tx") /\ input["source_tx"] >= 0
                 THEN input["source_tx"] ELSE 0,
          rx |-> IF Has(input, "source_rx") /\ input["source_rx"] >= 0
                 THEN input["source_rx"] ELSE 0]
    ELSE [some |-> FALSE, tx |-> 0, rx |-> 0]

\* parse_old_format_for_migration: Some((source_tx, source_rx)) or None
parse_old_format_for_migration(input) ==
    IF /\ Has(input, "source_tx") /\ input["source_tx"] >= 0
       /\ Has(input, "source_rx") /\ input["source_rx"] >= 0
    THEN [some |-> TRUE,  tx |-> input["source_tx"], rx |-> input["source_rx"]]
    ELSE [some |-> FALSE, tx |-> 0, rx |-> 0]
(***************************************************************************)
(* The text of the persisted record.                                       *)
(*                                                                         *)
(* A text is held as the sequence of its lines, the way str::lines yields  *)
(* them; a line is a sequence of one-character strings.  Every line that   *)
(* encode appends ends with "\n", so a field value that itself holds "\n"  *)
(* spreads over several lines.  The string fields of a record handled here *)
(* (network_save_path, traffic_reset_day, boot_id) are character           *)
(* sequences.                                                              *)
(***************************************************************************)
LF == "\n"
Whitespace == {" ", "\t", "\r", LF}

\* str::trim_start / str::trim_end / str::trim
RECURSIVE trim_start(_)
trim_start(s) ==
    IF Len(s) > 0 /\ s[1] \in Whitespace THEN trim_start(Tail(s)) ELSE s

RECURSIVE trim_end(_)
trim_end(s) ==
    IF Len(s) > 0 /\ s[Len(s)] \in Whitespace
    THEN trim_end(SubSeq(s, 1, Len(s) - 1)) ELSE s

trim(s) == trim_end(trim_start(s))

\* position of the first c in s, 0 when there is none
find_char(s, c) ==
    IF \E i \in 1..Len(s) : s[i] = c
    THEN CHOOSE i \in 1..Len(s) : s[i] = c /\ \A j \in 1..(i - 1) : s[j] # c
    ELSE 0

\* the lines str::lines yields for a string s followed by "\n"
RECURSIVE split_lines(_)
split_lines(s) ==
    IF find_char(s, LF) = 0 THEN <<s>>
    ELSE <<SubSeq(s, 1, find_char(s, LF) - 1)>>
         \o split_lines(SubSeq(s, find_char(s, LF) + 1, Len(s)))

\* Display of an unsigned / signed integer and of a bool
RECURSIVE fmt_unsigned(_)
fmt_unsigned(n) ==
    IF n < 10 THEN <<Digits[n + 1]>>
    ELSE fmt_unsigned(n \div 10) \o <<Digits[(n % 10) + 1]>>

fmt_i64(n) == IF n < 0 THEN <<"-">> \o fmt_unsigned(0 - n) ELSE fmt_unsigned(n)

fmt_bool(b) == IF b THEN <<"t","r","u","e">> ELSE <<"f","a","l","s","e">>

\* Debug of TrafficPeriod
fmt_period(p) ==
    CASE p = "Week"  -> <<"W","e","e","k">>
      [] p = "Month" -> <<"M","o","n","t","h">>
      [] p = "Year"  -> <<"Y","e","a","r">>

\* str::parse::<u32> / <u64>: an optional '+', then one or more digits
parse_unsigned(s) ==
    LET body == IF Len(s) > 0 /\ s[1] = "+" THEN Tail(s) ELSE s
    IN  IF Len(body) > 0 /\ \A i \in 1..Len(body) : is_digit(body[i])
        THEN [ok |-> TRUE, val |-> digits_value(body)]
        ELSE [ok |-> FALSE, val |-> 0]

\* str::parse::<i64>: an optional '+' or '-', then one or more digits
parse_i64(s) ==
    LET neg  == Len(s) > 0 /\ s[1] = "-"
        body == IF Len(s) > 0 /\ s[1] \in {"+", "-"} THEN Tail(s) ELSE s
    IN  IF Len(body) > 0 /\ \A i \in 1..Len(body) : is_digit(body[i])
        THEN [ok |-> TRUE,
              val |-> IF neg THEN 0 - digits_value(body) ELSE digits_value(body)]
        ELSE [ok |-> FALSE, val |-> 0]

\* str::parse::<bool>
parse_bool(s) ==
    IF s = <<"t","r","u","e">> THEN [ok |-> TRUE, val |-> TRUE]
    ELSE IF s = <<"f","a","l","s","e">> THEN [ok |-> TRUE, val |-> FALSE]
    ELSE [ok |-> FALSE, val |-> FALSE]

\* the keys of the record, in the order encode writes them
RecordKeys ==
    <<"disable_network_statistics", "network_interval", "network_save_path",
      "traffic_period", "traffic_reset_day", "boot_id", "cycle_total_tx",
      "cycle_total_rx", "next_reset_timestamp", "offset_tx", "offset_rx">>

key_chars(k) ==
    CASE k = "disable_network_statistics" ->
             <<"d","i","s","a","b","l","e","_","n","e","t","w","o","r","k","_",
               "s","t","a","t","i","s","t","i","c","s">>
      [] k = "network_interval" ->
             <<"n","e","t","w","o","r","k","_","i","n","t","e","r","v","a","l">>
      [] k = "network_save_path" ->
             <<"n","e","t","w","o","r","k","_","s","a","v","e","_","p","a","t","h">>
      [] k = "traffic_period" ->
             <<"t","r","a","f","f","i","c","_","p","e","r","i","o","d">>
      [] k = "traffic_reset_day" ->
             <<"t","r","a","f","f","i","c","_","r","e","s","e","t","_","d","a","y">>
      [] k = "boot_id" -> <<"b","o","o","t","_","i","d">>
      [] k = "cycle_total_tx" ->
             <<"c","y","c","l","e","_","t","o","t","a","l","_","t","x">>
      [] k = "cycle_total_rx" ->
             <<"c","y","c","l","e","_","t","o","t","a","l","_","r","x">>
      [] k = "next_reset_timestamp" ->
             <<"n","e","x","t","_","r","e","s","e","t","_","t","i","m","e","s",
               "t","a","m","p">>
      [] k = "offset_tx" -> <<"o","f","f","s","e","t","_","t","x">>
      [] k = "offset_rx" -> <<"o","f","f","s","e","t","_","r","x">>

\* the arm of `match key` a key string selects; "_" is the catch-all arm
match_key(cs) ==
    IF \E i \in 1..Len(RecordKeys) : key_chars(RecordKeys[i]) = cs
    THEN RecordKeys[CHOOSE i \in 1..Len(RecordKeys) : key_chars(RecordKeys[i]) = cs]
    ELSE "_"

\* the value encode formats for a key
field_chars(info, k) ==
    CASE k = "disable_network_statistics" ->
             fmt_bool(info.config.disable_network_statistics)
      [] k = "network_interval"     -> fmt_unsigned(info.config.network_interval)
      [] k = "network_save_path"    -> info.config.network_save_path
      [] k = "traffic_period"       -> fmt_period(info.config.traffic_period)
      [] k = "traffic_reset_day"    -> info.config.traffic_reset_day
      [] k = "boot_id"              -> info.boot_id
      [] k = "cycle_total_tx"       -> fmt_unsigned(info.cycle_total_tx)
      [] k = "cycle_total_rx"       -> fmt_unsigned(info.cycle_total_rx)
      [] k = "next_reset_timestamp" -> fmt_i64(info.next_reset_timestamp)
      [] k = "offset_tx"            -> fmt_i64(info.offset_tx)
      [] k = "offset_rx"            -> fmt_i64(info.offset_rx)

\* append_line!: "{key}={value}\n"
append_line(key, value) == split_lines(key_chars(key) \o <<"=">> \o value)

\* NetworkInfo::encode, as the lines of the string it returns
RECURSIVE encode_from(_, _)
encode_from(info, i) ==
    IF i > Len(RecordKeys) THEN <<>>
    ELSE append_line(RecordKeys[i], field_chars(info, RecordKeys[i]))
         \o encode_from(info, i + 1)

NetworkInfo_encode(info) == encode_from(info, 1)

\* the result of one iteration of the loop over the lines of decode
SkipLine == [kind |-> "skip", key |-> "_", val |-> 0]
LineError(kind, key) == [kind |-> kind, key |-> key, val |-> 0]
FieldLine(key, val) == [kind |-> "field", key |-> key, val |-> val]
ParsedField(key, p) == IF p.ok THEN FieldLine(key, p.val) ELSE LineError("invalid", key)

\* the lines decode passes over: empty after trim, or starting with '#'
\* variant that passes over empty lines only
is_ignored_line_blank_only(line) == Len(line) = 0

is_ignored_line(line) == Len(line) = 0 \/ line[1] = "#"

\* the match on traffic_period's value; "None" is the catch-all arm
period_of(value) ==
    CASE value = <<"W","e","e","k">>     -> "Week"
      [] value = <<"M","o","n","t","h">> -> "Month"
      [] value = <<"Y","e","a","r">>     -> "Year"
      [] OTHER -> "None"

\* the `match key` of decode
parse_field(key, value) ==
    CASE key = "disable_network_statistics" -> ParsedField(key, parse_bool(value))
      [] key = "network_interval"     -> ParsedField(key, parse_unsigned(value))
      [] key = "network_save_path"    -> FieldLine(key, value)
      [] key = "traffic_period"       -> FieldLine(key, period_of(value))
      [] key = "traffic_reset_day"    -> FieldLine(key, value)
      [] key = "boot_id"              -> FieldLine(key, value)
      [] key = "cycle_total_tx"       -> ParsedField(key, parse_unsigned(value))
      [] key = "cycle_total_rx"       -> ParsedField(key, parse_unsigned(value))
      [] key = "next_reset_timestamp" -> ParsedField(key, parse_i64(value))
      [] key = "offset_tx"            -> ParsedField(key, parse_i64(value))
      [] key = "offset_rx"            -> ParsedField(key, parse_i64(value))
      [] OTHER -> SkipLine

\* one iteration of the loop of decode
parse_line(raw) ==
    LET line == trim(raw)
    IN  IF is_ignored_line(line) THEN SkipLine
        ELSE IF find_char(line, "=") = 0 THEN LineError("format", "_")
        ELSE parse_field(match_key(trim(SubSeq(line, 1, find_char(line, "=") - 1))),
                         trim(SubSeq(line, find_char(line, "=") + 1, Len(line))))

RECURSIVE parse_lines(_)
parse_lines(input) ==
    IF Len(input) = 0 THEN <<>>
    ELSE <<parse_line(Head(input))>> \o parse_lines(Tail(input))

\* the first iteration that returns early with an error, 0 when none does
first_error(parsed) ==
    IF \E i \in 1..Len(parsed) : parsed[i].kind \in {"format", "invalid"}
    THEN CHOOSE i \in 1..Len(parsed) :
             /\ parsed[i].kind \in {"format", "invalid"}
             /\ \A j \in 1..(i - 1) : parsed[j].kind \notin {"format", "invalid"}
    ELSE 0

\* the locals of decode after the loop: the last assignment to each
fields_of(parsed) ==
    LET at(k) == {i \in 1..Len(parsed) : parsed[i].kind = "field" /\ parsed[i].key = k}
        last(k) == CHOOSE i \in at(k) : \A j \in at(k) : j <= i
    IN  [k \in {RecordKeys[n] : n \in {m \in 1..Len(RecordKeys) : at(RecordKeys[m]) # {}}}
            |-> parsed[last(k)].val]

DecodeErr(err) == [ok |-> FALSE, err |-> err, info |-> NoInfo]

\* decode after the loop over the lines: the struct is assembled
assemble(parsed) ==
    IF first_error(parsed) # 0 THEN DecodeErr(parsed[first_error(parsed)].kind)
    ELSE IF decode(fields_of(parsed)).ok
         THEN [ok |-> TRUE, err |-> "none", info |-> decode(fields_of(parsed)).info]
         ELSE DecodeErr("missing")

\* NetworkInfo::decode on the lines of its input
NetworkInfo_decode(input) ==
    CHOOSE r \in { assemble(parsed) : parsed \in {parse_lines(input)} } : TRUE

\* the codec is not exercised
NoEdit == [kind |-> "none", what |-> <<>>]

CodecIdle ==
    /\ c_pc = "off"
    /\ c_rec = NoInfo
    /\ c_text = <<>>
    /\ c_edit = NoEdit
    /\ c_dec = DecodeErr("none")

\* no file handle is exercised
FileIdle ==
    /\ f_pc = "off"
    /\ f_data = <<>>
    /\ f_pos = 0
    /\ f_info = NoInfo
    /\ f_last = "none"
    /\ f_before = 0
    /\ f_saves = 0

(***************************************************************************)
(* State Recovery: initialize_network_state_and_offset.                    *)
(***************************************************************************)
\* step 4: which arm of the offset resolution is taken
offset_path(info) ==
    IF info.offset_tx = I64_MIN THEN "generic"
    ELSE IF info.offset_tx = I64_MIN + 1 THEN "reboot"
    ELSE IF info.offset_tx = I64_MIN + 2 THEN
        (IF info.cycle_total_tx = 0 /\ info.cycle_total_rx = 0
         THEN "fresh_zero" ELSE "fresh_seeded")
    ELSE "kept"

\* variant of resolve_offset that adds the raw sample instead of subtracting it
resolve_offset_plus(info, current_total_tx, current_total_rx) ==
    IF info.offset_tx = I64_MIN THEN
        [info EXCEPT !.offset_tx = info.cycle_total_tx + current_total_tx,
                     !.offset_rx = info.cycle_total_rx + current_total_rx]
    ELSE IF info.offset_tx = I64_MIN + 1 THEN
        [info EXCEPT !.offset_tx = info.cycle_total_tx,
                     !.offset_rx = info.cycle_total_rx]
    ELSE IF info.offset_tx = I64_MIN + 2 THEN
        IF info.cycle_total_tx = 0 /\ info.cycle_total_rx = 0
        THEN [info EXCEPT !.offset_tx = 0, !.offset_rx = 0]
        ELSE [info EXCEPT !.offset_tx = info.cycle_total_tx + current_total_tx,
                          !.offset_rx = info.cycle_total_rx + current_total_rx]
    ELSE info

\* variant of resolve_offset that treats a reboot like a generic invalidation
resolve_offset_reboot_as_generic(info, current_total_tx, current_total_rx) ==
    IF info.offset_tx = I64_MIN \/ info.offset_tx = I64_MIN + 1 THEN
        [info EXCEPT !.offset_tx = info.cycle_total_tx - current_total_tx,
                     !.offset_rx = info.cycle_total_rx - current_total_rx]
    ELSE IF info.offset_tx = I64_MIN + 2 THEN
        IF info.cycle_total_tx = 0 /\ info.cycle_total_rx = 0
        THEN [info EXCEPT !.offset_tx = 0, !.offset_rx = 0]
        ELSE [info EXCEPT !.offset_tx = info.cycle_total_tx - current_total_tx,
                          !.offset_rx = info.cycle_total_rx - current_total_rx]
    ELSE info

\* variant of resolve_offset that recomputes a valid offset loaded from disk
resolve_offset_always(info, current_total_tx, current_total_rx) ==
    IF info.offset_tx = I64_MIN + 1 THEN
        [info EXCEPT !.offset_tx = info.cycle_total_tx,
                     !.offset_rx = info.cycle_total_rx]
    ELSE IF info.offset_tx = I64_MIN + 2
            /\ info.cycle_total_tx = 0 /\ info.cycle_total_rx = 0 THEN
        [info EXCEPT !.offset_tx = 0, !.offset_rx = 0]
    ELSE
        [info EXCEPT !.offset_tx = info.cycle_total_tx - current_total_tx,
                     !.offset_rx = info.cycle_total_rx - current_total_rx]

\* variant of resolve_offset that treats the fresh-file sentinel like the
\* generic one
resolve_offset_fresh_as_generic(info, current_total_tx, current_total_rx) ==
    IF info.offset_tx \in {I64_MIN, I64_MIN + 2} THEN
        [info EXCEPT !.offset_tx = info.cycle_total_tx - current_total_tx,
                     !.offset_rx = info.cycle_total_rx - current_total_rx]
    ELSE IF info.offset_tx = I64_MIN + 1 THEN
        [info EXCEPT !.offset_tx = info.cycle_total_tx,
                     !.offset_rx = info.cycle_total_rx]
    ELSE info

\* variant of resolve_offset whose fresh-file zero test looks at each
\* direction on its own
resolve_offset_per_direction(info, current_total_tx, current_total_rx) ==
    IF info.offset_tx = I64_MIN THEN
        [info EXCEPT !.offset_tx = info.cycle_total_tx - current_total_tx,
                     !.offset_rx = info.cycle_total_rx - current_total_rx]
    ELSE IF info.offset_tx = I64_MIN + 1 THEN
        [info EXCEPT !.offset_tx = info.cycle_total_tx,
                     !.offset_rx = info.cycle_total_rx]
    ELSE IF info.offset_tx = I64_MIN + 2 THEN
        [info EXCEPT
            !.offset_tx = IF info.cycle_total_tx = 0 THEN 0
                          ELSE info.cycle_total_tx - current_total_tx,
            !.offset_rx = IF info.cycle_total_rx = 0 THEN 0
                          ELSE info.cycle_total_rx - current_total_rx]
    ELSE info

\* step 4: resolve the sentinel against the raw sample
resolve_offset(info, current_total_tx, current_total_rx) ==
    IF info.offset_tx = I64_MIN THEN
        [info EXCEPT !.offset_tx = info.cycle_total_tx - current_total_tx,
                     !.offset_rx = info.cycle_total_rx - current_total_rx]
    ELSE IF info.offset_tx = I64_MIN + 1 THEN
        [info EXCEPT !.offset_tx = info.cycle_total_tx,
                     !.offset_rx = info.cycle_total_rx]
    ELSE IF info.offset_tx = I64_MIN + 2 THEN
        IF info.cycle_total_tx = 0 /\ info.cycle_total_rx = 0
        THEN [info EXCEPT !.offset_tx = 0, !.offset_rx = 0]
        ELSE [info EXCEPT !.offset_tx = info.cycle_total_tx - current_total_tx,
                          !.offset_rx = info.cycle_total_rx - current_total_rx]
    ELSE info

\* the record built from the file: fresh, decoded, or rebuilt with migration
load_network_info(network_config, raw_data, sched, new_boot_id) ==
    IF DOMAIN raw_data = {} THEN
        MkInfo(network_config, new_boot_id, 0, 0, sched.ts, I64_MIN + 2, I64_MIN + 2)
    ELSE IF decode(raw_data).ok THEN
        decode(raw_data).info
    ELSE
        LET old == parse_old_format_for_migration(raw_data)
        IN  MkInfo(network_config, new_boot_id, old.tx, old.rx, sched.ts,
                   I64_MIN + 2, I64_MIN + 2)

load_source(raw_data) ==
    IF DOMAIN raw_data = {} THEN "fresh"
    ELSE IF decode(raw_data).ok THEN "decoded"
    ELSE "migrated"

\* step 1: configuration change
apply_config_change(info, network_config, sched) ==
    IF info.config # network_config
    THEN [info EXCEPT !.next_reset_timestamp = sched.ts, !.config = network_config]
    ELSE info

\* step 2: the cycle ended since the last run
apply_cycle_reset(info, now, sched) ==
    IF now >= info.next_reset_timestamp
    THEN [info EXCEPT !.cycle_total_tx = 0,
                      !.cycle_total_rx = 0,
                      !.next_reset_timestamp = sched.ts,
                      !.offset_tx = I64_MIN,
                      !.offset_rx = I64_MIN]
    ELSE info

\* variant of is_reboot that accepts an empty boot id
is_reboot_any_id(info, linux, new_boot_id) ==
    linux /\ info.boot_id # new_boot_id

\* step 3: reboot detection
is_reboot(info, linux, new_boot_id) ==
    linux /\ new_boot_id # "" /\ info.boot_id # new_boot_id

\* variant of apply_reboot that keeps the generic sentinel of a rollover
apply_reboot_unless_rolled(info, linux, new_boot_id) ==
    [ (IF is_reboot(info, linux, new_boot_id) /\ info.offset_tx # I64_MIN
       THEN [info EXCEPT !.offset_tx = I64_MIN + 1, !.offset_rx = I64_MIN + 1]
       ELSE info)
      EXCEPT !.boot_id = new_boot_id ]

\* variant of apply_reboot that leaves the stored boot id in the record
apply_reboot_keep_id(info, linux, new_boot_id) ==
    IF is_reboot(info, linux, new_boot_id)
    THEN [info EXCEPT !.offset_tx = I64_MIN + 1, !.offset_rx = I64_MIN + 1]
    ELSE info

apply_reboot(info, linux, new_boot_id) ==
    [ (IF is_reboot(info, linux, new_boot_id)
       THEN [info EXCEPT !.offset_tx = I64_MIN + 1, !.offset_rx = I64_MIN + 1]
       ELSE info)
      EXCEPT !.boot_id = new_boot_id ]

(***************************************************************************)
(* Accounting driver (network_saver) with its environment.                 *)
(***************************************************************************)
NoRec == [ok |-> FALSE, io |-> "none", source |-> "none", path |-> "none",
          config_changed |-> FALSE, rolled |-> FALSE, reboot |-> FALSE,
          origin |-> "none"]

DriverIdle ==
    /\ clock = 0 /\ target_linux = TRUE /\ host_boot_id = ""
    /\ counter_tx = 0 /\ counter_rx = 0
    /\ file = EmptyFile /\ args_config = NoConfig
    /\ d_pc = "off" /\ network_info = NoInfo /\ offset_tx = 0 /\ offset_rx = 0
    /\ rec = NoRec /\ smp = "none" /\ ticks = 0 /\ starts = 0

PublisherIdle ==
    /\ TRAFFIC_OFFSET_TX = 0
    /\ TRAFFIC_OFFSET_RX = 0

TasksIdle ==
    /\ p_impl = "atomic"
    /\ lock_writer = FALSE /\ lock_readers = 0
    /\ w_pc = "off" /\ w_tx = 0 /\ w_rx = 0
    /\ r_pc = "off" /\ r_tx = 0 /\ r_rx = 0
    /\ r_allowed = {} /\ complete_pair = <<0, 0>> /\ updates = 0

\* 2024-02-28T12:00:00Z, a Wednesday
StartTime == midnight_timestamp(MkDate(2024, 2, 28)) + 43200
TickStep  == SecondsPerDay \div 2

CfgMonth == MkConfig("Month", <<"1">>)
CfgWeek  == MkConfig("Week", <<"t","h","u">>)
CfgYear  == MkConfig("Year", <<"0","2","/","2","9">>)
CfgOff   == [CfgMonth EXCEPT !.disable_network_statistics = TRUE]
Configs  == {CfgMonth, CfgWeek, CfgYear, CfgOff}

\* records found on disk at process start
StoredResets == { midnight_timestamp(MkDate(2024, 2, 1)),
                  midnight_timestamp(MkDate(2024, 3, 1)) }
StoredInfos ==
    { MkInfo(c, b, t[1], t[2], nr, o[1], o[2]) :
        c \in {CfgMonth}, b \in {"A", "B"},
        t \in {<<5, 2>>}, nr \in StoredResets,
        o \in {<<3, 1>>} }

without(f, keys) == [k \in (DOMAIN f) \ keys |-> f[k]]

LegacyFile(tx, rx) == [k \in {"source_tx", "source_rx"} |->
                          IF k = "source_tx" THEN tx ELSE rx]
JunkFile == [k \in {"junk"} |-> 0]

\* a legacy value that does not parse as u64 is held as -1
InitFiles ==
    {EmptyFile, JunkFile, LegacyFile(4, 0), LegacyFile(4, 3), LegacyFile(4, -1),
     without(LegacyFile(4, 3), {"source_rx"})}
    \cup { encode(i) : i \in StoredInfos }
    \cup { without(encode(i), {"offset_tx", "offset_rx"}) : i \in StoredInfos }
    \cup { without(encode(i), {"offset_rx"}) : i \in StoredInfos }


DriverInit ==
    /\ clock = StartTime
    /\ target_linux \in BOOLEAN
    /\ host_boot_id = "B"
    /\ counter_tx = 0
    /\ counter_rx = 0
    /\ file \in InitFiles
    /\ args_config \in Configs
    /\ d_pc = "init"
    /\ network_info = NoInfo
    /\ offset_tx = 0
    /\ offset_rx = 0
    /\ rec = NoRec
    /\ smp = "none"
    /\ ticks = 0 /\ starts = 0

\* get_boot_id: the trimmed file content, or "" on error and off Linux
boot_id_readings == IF target_linux THEN {host_boot_id, ""} ELSE {""}

\* save_network_info: the file after the call; rewind and set_len(0) come
\* before write_all
saved_file(io, info) ==
    CASE io = "ok"             -> encode(info)
      [] io = "save_err_early" -> file
      [] io = "save_err_late"  -> EmptyFile

\* variant of driver_enabled that ignores disable_network_statistics
driver_enabled_always(config) == TRUE

\* the test at the head of network_saver
driver_enabled(config) == ~config.disable_network_statistics

\* network_saver with disable_network_statistics set: it returns at once
Disabled ==
    /\ d_pc = "init"
    /\ ~driver_enabled(args_config)
    /\ d_pc' = "stopped"
    /\ UNCHANGED <<codec_vars, sched_vars, task_vars, host_vars, network_info,
                   offset_tx, offset_rx, pub_vars, hist_vars>>

\* variant of after_recovery that runs State Recovery again after an error
after_recovery_retry(done) == IF done THEN "cycle" ELSE "init"

\* the match on the result of State Recovery: Ok enters the sample loop,
\* Err logs and returns
after_recovery(done) == IF done THEN "cycle" ELSE "stopped"

\* variant of after_sample_write that leaves the loop when the write fails
after_sample_write_abort(io) == IF io = "ok" THEN "cycle" ELSE "stopped"

\* the `if let Err(e)` after save_network_info in the sample loop
after_sample_write(io) == "cycle"

\* variant of realtime_total without the floor at zero
realtime_total_unclamped(total, offset) == total + offset

\* imp::realtime_network: the total it reports for a raw total
realtime_total(total, offset) == Max(total + offset, 0)

\* variant of scheduler_passed that goes on after an Err of the scheduler
scheduler_passed_always(source, changed, rolled, sched) == TRUE

\* the ? on each call of calculate_next_reset_timestamp in State Recovery:
\* the call is made for a fresh or rebuilt record, on a configuration change
\* and on a rollover
scheduler_passed(source, changed, rolled, sched) ==
    /\ (source = "decoded" \/ sched.ok)
    /\ (changed => sched.ok)
    /\ (rolled => sched.ok)

\* variant of published_pair that publishes the tx offset in both cells
published_pair_tx_only(info) == <<info.offset_tx, info.offset_tx>>

\* the arguments of update_traffic_offset at the end of State Recovery
published_pair(info) == <<info.offset_tx, info.offset_rx>>

\* variant of sample_record that also stores the totals as the new offsets
sample_record_rebased(info, current_total_tx, current_total_rx, off_tx, off_rx) ==
    [info EXCEPT
        !.cycle_total_tx = Max(current_total_tx + off_tx, 0),
        !.cycle_total_rx = Max(current_total_rx + off_rx, 0),
        !.offset_tx = Max(current_total_tx + off_tx, 0),
        !.offset_rx = Max(current_total_rx + off_rx, 0)]

\* the record a sample-loop iteration saves: the totals are recomputed from
\* the raw sample and the offset of the cycle
sample_record(info, current_total_tx, current_total_rx, off_tx, off_rx) ==
    [info EXCEPT
        !.cycle_total_tx = Max(current_total_tx + off_tx, 0),
        !.cycle_total_rx = Max(current_total_rx + off_rx, 0)]

\* variant of cycle_ended that misses the reset instant itself
cycle_ended_strict(now, info) == now > info.next_reset_timestamp

\* the test at the head of a sample-loop iteration
cycle_ended(now, info) == now >= info.next_reset_timestamp

\* one run of initialize_network_state_and_offset and the match on its result
\* in network_saver; an Err of the scheduler (the ? operator) returns before
\* the offset is published
Recover(io, new_boot_id) ==
    /\ d_pc = "init"
    /\ driver_enabled(args_config)
    /\ \E sched  \in {calculate_next_reset_timestamp(args_config, clock)} :
       \E source \in {load_source(file)} :
       \E loaded \in {load_network_info(args_config, file, sched, new_boot_id)} :
       \E s1 \in {apply_config_change(loaded, args_config, sched)} :
       \E s2 \in {apply_cycle_reset(s1, clock, sched)} :
       \E s3 \in {apply_reboot(s2, target_linux, new_boot_id)} :
       \E s4 \in {resolve_offset(s3, counter_tx, counter_rx)} :
       \E changed \in {loaded.config # args_config} :
       \E rolled  \in {clock >= s1.next_reset_timestamp} :
       \E published \in {/\ io # "open_err"
                         /\ scheduler_passed(source, changed, rolled, sched)} :
       \E done \in {published /\ io = "ok"} :
           /\ rec' = [ok |-> done, io |-> io, source |-> source,
                      path |-> offset_path(s3), config_changed |-> changed,
                      rolled |-> rolled,
                      reboot |-> is_reboot(s2, target_linux, new_boot_id),
                      origin |-> IF rec.origin = "none" THEN source
                                 ELSE rec.origin]
           /\ IF published
              THEN /\ TRAFFIC_OFFSET_TX' = published_pair(s4)[1]
                   /\ TRAFFIC_OFFSET_RX' = published_pair(s4)[2]
                   /\ file' = saved_file(io, s4)
              ELSE UNCHANGED <<pub_vars, file>>
           /\ d_pc' = after_recovery(done)
           /\ IF done
              THEN /\ network_info' = s4
                   /\ offset_tx' = s4.offset_tx
                   /\ offset_rx' = s4.offset_rx
              ELSE UNCHANGED <<network_info, offset_tx, offset_rx>>
    /\ smp' = "none"
    /\ UNCHANGED <<codec_vars, sched_vars, task_vars, clock, target_linux, host_boot_id, counter_tx,
                   counter_rx, args_config, ticks, starts>>

\* "open_err" stands for a failed open or read of the file
IoOutcomes == {"ok", "open_err", "save_err_early", "save_err_late"}

\* one iteration of the inner loop of network_saver, after the sleep
SampleIter(io) ==
    /\ d_pc = "cycle"
    /\ IF cycle_ended(clock, network_info)
       THEN /\ io = "ok"
            /\ d_pc' = "init"
            /\ smp' = "none"
            /\ UNCHANGED <<network_info, file>>
       ELSE /\ network_info' = sample_record(network_info, counter_tx, counter_rx,
                                              offset_tx, offset_rx)
            /\ file' = saved_file(io, network_info')
            /\ d_pc' = after_sample_write(io)
            /\ smp' = IF io # "ok" THEN "failed"
                      ELSE IF smp = "none" THEN "none"
                      ELSE "retried"
    /\ UNCHANGED <<codec_vars, sched_vars, task_vars, clock, target_linux, host_boot_id, counter_tx,
                   counter_rx, args_config, offset_tx, offset_rx,
                   pub_vars, rec, ticks, starts>>

\* time passes while the agent runs (or sleeps before it is started again)
Tick ==
    /\ d_pc = "cycle"
    /\ ticks < MaxTicks
    /\ clock' = clock + TickStep
    /\ ticks' = ticks + 1
    /\ UNCHANGED <<codec_vars, sched_vars, task_vars, target_linux, host_boot_id, counter_tx,
                   counter_rx, file, args_config, saver_vars, pub_vars,
                   rec, smp, starts>>

\* the interfaces carry traffic
Traffic(dtx, drx) ==
    /\ d_pc \in {"init", "cycle", "stopped"}
    /\ counter_tx + dtx <= MaxRaw
    /\ counter_tx' = counter_tx + dtx
    /\ counter_rx' = counter_rx + drx
    /\ UNCHANGED <<codec_vars, sched_vars, task_vars, clock, target_linux, host_boot_id, file,
                   args_config, saver_vars, pub_vars, hist_vars>>

\* the agent is stopped and started again, possibly with another configuration
Restart(new_config) ==
    /\ d_pc # "off"
    /\ starts < MaxStarts
    /\ starts' = starts + 1
    /\ args_config' = new_config
    /\ d_pc' = "init"
    /\ network_info' = NoInfo
    /\ offset_tx' = 0
    /\ offset_rx' = 0
    /\ TRAFFIC_OFFSET_TX' = 0
    /\ TRAFFIC_OFFSET_RX' = 0
    /\ smp' = "none"
    /\ rec' = [NoRec EXCEPT !.origin = rec.origin]
    /\ UNCHANGED <<codec_vars, sched_vars, task_vars, clock, target_linux, host_boot_id, counter_tx,
                   counter_rx, file, ticks>>

\* the host reboots: new boot id, interface counters restart from zero, and
\* the agent starts again with the same configuration
Reboot ==
    /\ d_pc # "off"
    /\ starts < MaxStarts
    /\ starts' = starts + 1
    /\ host_boot_id' = (IF host_boot_id = "B" THEN "C" ELSE "B")
    /\ counter_tx' = 0
    /\ counter_rx' = 0
    /\ d_pc' = "init"
    /\ network_info' = NoInfo
    /\ offset_tx' = 0
    /\ offset_rx' = 0
    /\ TRAFFIC_OFFSET_TX' = 0
    /\ TRAFFIC_OFFSET_RX' = 0
    /\ smp' = "none"
    /\ rec' = [NoRec EXCEPT !.origin = rec.origin]
    /\ UNCHANGED <<codec_vars, sched_vars, task_vars, clock, target_linux, file, args_config,
                   ticks>>

\* the points inside save_network_info at which the process can stop: after
\* rewind, after set_len(0), after write_all
StopPoints == {"rewound", "truncated", "written"}

\* save_network_info cut short: the file the process leaves behind
interrupted_file(at, info) ==
    CASE at = "rewound"   -> file
      [] at = "truncated" -> EmptyFile
      [] at = "written"   -> encode(info)

\* the process stops inside the save of a sample-loop iteration and the
\* agent is started again with the same configuration
Crash(at) ==
    /\ d_pc = "cycle"
    /\ ~cycle_ended(clock, network_info)
    /\ starts < MaxStarts
    /\ starts' = starts + 1
    /\ file' = interrupted_file(at, sample_record(network_info, counter_tx,
                                                  counter_rx, offset_tx, offset_rx))
    /\ d_pc' = "init"
    /\ network_info' = NoInfo
    /\ offset_tx' = 0
    /\ offset_rx' = 0
    /\ TRAFFIC_OFFSET_TX' = 0
    /\ TRAFFIC_OFFSET_RX' = 0
    /\ smp' = "none"
    /\ rec' = [NoRec EXCEPT !.origin = rec.origin]
    /\ UNCHANGED <<codec_vars, sched_vars, task_vars, clock, target_linux, host_boot_id, counter_tx,
                   counter_rx, args_config, ticks>>

Init == SchedIdle /\ DriverInit /\ PublisherIdle /\ TasksIdle /\ CodecIdle /\ FileIdle
InitSched == SchedInit /\ DriverIdle /\ PublisherIdle /\ TasksIdle /\ CodecIdle /\ FileIdle

Next ==
    \/ Disabled
    \/ \E io \in IoOutcomes, b \in boot_id_readings : Recover(io, b)
    \/ \E io \in {"ok", "save_err_early", "save_err_late"} : SampleIter(io)
    \/ Tick
    \/ Traffic(1, 2)
    \/ \E c \in Configs : Restart(c)
    \/ Reboot
    \/ \E at \in StopPoints : Crash(at)

Spec == Init /\ [][Next]_vars

SpecSched == InitSched /\ [][SchedNext]_vars
(***************************************************************************)
(* Properties of State Recovery and of the driver (checked under Spec).    *)
(***************************************************************************)
\* a step that is a successful run of State Recovery
RecoveredStep == d_pc = "init" /\ d_pc' = "cycle"

\* a step that is a sample-loop iteration that computed the totals
SampleWriteStep ==
    /\ d_pc = "cycle" /\ d_pc' = "cycle"
    /\ UNCHANGED <<clock, counter_tx, counter_rx>>
    /\ (network_info' # network_info \/ DOMAIN file' # DOMAIN file
        \/ (DOMAIN file # {} /\ file' # file))

\* the record State Recovery decodes from the file it finds
Stored == decode(file).info

\* C1: when the startup config differs from the config snapshot of the
\* persisted record, State Recovery zeroes cycle_total_tx / cycle_total_rx and
\* sets next_reset_at to the scheduler's result for the new config.
ConfigChangeResets ==
    [][ (RecoveredStep /\ decode(file).ok /\ Stored.config # args_config) =>
          /\ network_info'.cycle_total_tx = 0
          /\ network_info'.cycle_total_rx = 0
          /\ network_info'.next_reset_timestamp =
                 calculate_next_reset_timestamp(args_config, clock).ts
          /\ file' = encode(network_info') ]_vars

\* C2 as claimed: after State Recovery has resolved a sentinel offset,
\* raw_sample + offset == persisted cycle_total in both directions, on every
\* resolution path (generic invalidation, reboot, fresh file).
OffsetContinuityEveryPath ==
    [][ (RecoveredStep /\ rec'.path # "kept") =>
          /\ counter_tx + network_info'.offset_tx = network_info'.cycle_total_tx
          /\ counter_rx + network_info'.offset_rx = network_info'.cycle_total_rx
          /\ file' = encode(network_info') ]_vars

\* C2 amended: raw_sample + offset == persisted cycle_total holds in both
\* directions on the generic-invalidation path and on the fresh-file path with
\* a non-zero seeded total; on the reboot path the offset is the persisted
\* cycle_total itself and on the fresh-file path with zero totals it is 0,
\* whatever the raw sample is.
OffsetContinuity ==
    [][ RecoveredStep =>
          /\ file' = encode(network_info')
          /\ (rec'.path \in {"generic", "fresh_seeded"} =>
                /\ counter_tx + network_info'.offset_tx = network_info'.cycle_total_tx
                /\ counter_rx + network_info'.offset_rx = network_info'.cycle_total_rx)
          /\ (rec'.path = "reboot" =>
                /\ network_info'.offset_tx = network_info'.cycle_total_tx
                /\ network_info'.offset_rx = network_info'.cycle_total_rx)
          /\ (rec'.path = "fresh_zero" =>
                /\ network_info'.cycle_total_tx = 0 /\ network_info'.offset_tx = 0
                /\ network_info'.cycle_total_rx = 0 /\ network_info'.offset_rx = 0) ]_vars

\* C2 witness: a generic invalidation resolved against a non-zero raw sample
OffsetContinuityWitness ==
    /\ d_pc = "cycle" /\ rec.ok /\ rec.path = "generic"
    /\ counter_tx > 0
    /\ network_info.cycle_total_tx = 5
    /\ network_info.offset_tx = 5 - counter_tx
    /\ file = encode(network_info)

\* C3: for a decoded record with cycle_total_tx = T whose boot_id differs from
\* the host's non-empty boot id, config unchanged and now < next_reset_at,
\* State Recovery resolves offset_tx = T whatever the raw sample is, and a
\* sample-loop iteration of that cycle with raw sample R computes and writes
\* cycle_total_tx = T + R.
RebootScenario ==
    [][ /\ (RecoveredStep /\ decode(file).ok /\ Stored.config = args_config
              /\ clock < Stored.next_reset_timestamp
              /\ target_linux /\ network_info'.boot_id # ""
              /\ Stored.boot_id # network_info'.boot_id) =>
            /\ network_info'.offset_tx = Stored.cycle_total_tx
            /\ offset_tx' = Stored.cycle_total_tx
            /\ TRAFFIC_OFFSET_TX' = Stored.cycle_total_tx
        /\ (SampleWriteStep /\ rec.path = "reboot" /\ rec.source = "decoded"
              /\ ~rec.rolled /\ ~rec.config_changed) =>
            /\ network_info'.cycle_total_tx = offset_tx + counter_tx
            /\ (DOMAIN file' # {} /\ file' # file =>
                  file'["cycle_total_tx"] = offset_tx + counter_tx) ]_vars

\* C3 witness: T = 5 on disk, reboot detected, first sample with R = 1 wrote 6
RebootScenarioWitness ==
    /\ d_pc = "cycle" /\ rec.ok /\ rec.path = "reboot" /\ rec.source = "decoded"
    /\ ~rec.rolled /\ ~rec.config_changed
    /\ offset_tx = 5 /\ counter_tx = 1
    /\ network_info.cycle_total_tx = 6
    /\ file = encode(network_info)

\* C4: when the record decodes, its config equals the current config,
\* now < next_reset_at, no reboot is detected and the stored offset_tx is not a
\* sentinel, State Recovery leaves offset_tx and offset_rx as loaded, publishes
\* that pair and persists it.
OrdinaryRestartKeepsOffset ==
    [][ (RecoveredStep /\ decode(file).ok /\ Stored.config = args_config
           /\ clock < Stored.next_reset_timestamp
           /\ ~is_reboot(Stored, target_linux, network_info'.boot_id)
           /\ Stored.offset_tx \notin Sentinels) =>
          /\ network_info'.offset_tx = Stored.offset_tx
          /\ network_info'.offset_rx = Stored.offset_rx
          /\ TRAFFIC_OFFSET_TX' = Stored.offset_tx
          /\ TRAFFIC_OFFSET_RX' = Stored.offset_rx
          /\ file'["offset_tx"] = Stored.offset_tx
          /\ file'["offset_rx"] = Stored.offset_rx ]_vars

\* C4 witness: the offsets (3, 1) of the file survive a restart although the
\* raw sample would have given another pair
OrdinaryRestartWitness ==
    /\ d_pc = "cycle" /\ rec.ok /\ rec.path = "kept" /\ rec.source = "decoded"
    /\ ~rec.rolled /\ ~rec.config_changed /\ ~rec.reboot
    /\ counter_tx = 1
    /\ network_info.offset_tx = 3 /\ network_info.offset_rx = 1
    /\ TRAFFIC_OFFSET_TX = 3 /\ TRAFFIC_OFFSET_RX = 1
    /\ file = encode(network_info)

\* C6: neither published offset is ever one of the three reserved sentinel
\* values, whatever file State Recovery accepted.
PublishedOffsetsResolved ==
    /\ TRAFFIC_OFFSET_TX \notin Sentinels
    /\ TRAFFIC_OFFSET_RX \notin Sentinels
(***************************************************************************)
(* Shared Offset Publisher: update_traffic_offset raced against the loads  *)
(* of realtime_network, which run on different threads of the runtime.     *)
(* Each atomic store and load is one step; the RwLock variant takes the    *)
(* lock, moves the pair and releases the lock.                             *)
(***************************************************************************)
OffsetPairs == {<<5, 2>>, <<3, 1>>, <<-1, -2>>}

PubInit ==
    /\ p_impl \in {"atomic", "rwlock"}
    /\ lock_writer = FALSE /\ lock_readers = 0
    /\ w_pc = "idle" /\ w_tx = 0 /\ w_rx = 0
    /\ r_pc = "idle" /\ r_tx = 0 /\ r_rx = 0
    /\ r_allowed = {} /\ complete_pair = <<0, 0>> /\ updates = 0

Reading == r_pc \notin {"idle", "done"}

\* the engine calls update_traffic_offset(offset_tx, offset_rx)
UpdateBegin(tx, rx) ==
    /\ w_pc = "idle"
    /\ updates < MaxUpdates
    /\ updates' = updates + 1
    /\ w_tx' = tx /\ w_rx' = rx
    /\ w_pc' = IF p_impl = "atomic" THEN "store_tx" ELSE "lock"
    /\ r_allowed' = IF Reading THEN r_allowed \cup {<<tx, rx>>} ELSE r_allowed
    /\ UNCHANGED <<codec_vars, sched_vars, host_vars, saver_vars, hist_vars, pub_vars, p_impl,
                   lock_writer, lock_readers, r_pc, r_tx, r_rx, complete_pair>>

\* TRAFFIC_OFFSET_TX.store(offset_tx, Relaxed)
AtomicStoreTx ==
    /\ w_pc = "store_tx"
    /\ TRAFFIC_OFFSET_TX' = w_tx
    /\ w_pc' = "store_rx"
    /\ UNCHANGED <<codec_vars, sched_vars, host_vars, saver_vars, hist_vars, TRAFFIC_OFFSET_RX,
                   p_impl, lock_writer, lock_readers, w_tx, w_rx, r_pc, r_tx, r_rx,
                   r_allowed, complete_pair, updates>>

\* TRAFFIC_OFFSET_RX.store(offset_rx, Relaxed)
AtomicStoreRx ==
    /\ w_pc = "store_rx"
    /\ TRAFFIC_OFFSET_RX' = w_rx
    /\ w_pc' = "idle"
    /\ complete_pair' = <<w_tx, w_rx>>
    /\ UNCHANGED <<codec_vars, sched_vars, host_vars, saver_vars, hist_vars, TRAFFIC_OFFSET_TX,
                   p_impl, lock_writer, lock_readers, w_tx, w_rx, r_pc, r_tx, r_rx,
                   r_allowed, updates>>

\* TRAFFIC_OFFSET.write()
LockWrite ==
    /\ w_pc = "lock"
    /\ ~lock_writer /\ lock_readers = 0
    /\ lock_writer' = TRUE
    /\ w_pc' = "locked_tx"
    /\ UNCHANGED <<codec_vars, sched_vars, host_vars, saver_vars, hist_vars, pub_vars, p_impl,
                   lock_readers, w_tx, w_rx, r_pc, r_tx, r_rx, r_allowed,
                   complete_pair, updates>>

\* *offset = (offset_tx, offset_rx): first word
LockedStoreTx ==
    /\ w_pc = "locked_tx"
    /\ TRAFFIC_OFFSET_TX' = w_tx
    /\ w_pc' = "locked_rx"
    /\ UNCHANGED <<codec_vars, sched_vars, host_vars, saver_vars, hist_vars, TRAFFIC_OFFSET_RX,
                   p_impl, lock_writer, lock_readers, w_tx, w_rx, r_pc, r_tx, r_rx,
                   r_allowed, complete_pair, updates>>

\* *offset = (offset_tx, offset_rx): second word, then the guard is dropped
LockedStoreRx ==
    /\ w_pc = "locked_rx"
    /\ TRAFFIC_OFFSET_RX' = w_rx
    /\ lock_writer' = FALSE
    /\ w_pc' = "idle"
    /\ complete_pair' = <<w_tx, w_rx>>
    /\ UNCHANGED <<codec_vars, sched_vars, host_vars, saver_vars, hist_vars, TRAFFIC_OFFSET_TX,
                   p_impl, lock_readers, w_tx, w_rx, r_pc, r_tx, r_rx,
                   r_allowed, updates>>

\* the reporting path enters realtime_network
ReadBegin ==
    /\ r_pc = "idle"
    /\ r_pc' = IF p_impl = "atomic" THEN "load_tx" ELSE "lock"
    /\ r_allowed' = {complete_pair} \cup
                    (IF w_pc # "idle" THEN {<<w_tx, w_rx>>} ELSE {})
    /\ UNCHANGED <<codec_vars, sched_vars, host_vars, saver_vars, hist_vars, pub_vars, p_impl,
                   lock_writer, lock_readers, w_pc, w_tx, w_rx, r_tx, r_rx,
                   complete_pair, updates>>

\* TRAFFIC_OFFSET_TX.load(Relaxed)
AtomicLoadTx ==
    /\ r_pc = "load_tx"
    /\ r_tx' = TRAFFIC_OFFSET_TX
    /\ r_pc' = "load_rx"
    /\ UNCHANGED <<codec_vars, sched_vars, host_vars, saver_vars, hist_vars, pub_vars, p_impl,
                   lock_writer, lock_readers, w_pc, w_tx, w_rx, r_rx, r_allowed,
                   complete_pair, updates>>

\* TRAFFIC_OFFSET_RX.load(Relaxed)
AtomicLoadRx ==
    /\ r_pc = "load_rx"
    /\ r_rx' = TRAFFIC_OFFSET_RX
    /\ r_pc' = "done"
    /\ UNCHANGED <<codec_vars, sched_vars, host_vars, saver_vars, hist_vars, pub_vars, p_impl,
                   lock_writer, lock_readers, w_pc, w_tx, w_rx, r_tx, r_allowed,
                   complete_pair, updates>>

\* TRAFFIC_OFFSET.read()
LockRead ==
    /\ r_pc = "lock"
    /\ ~lock_writer
    /\ lock_readers' = lock_readers + 1
    /\ r_pc' = "locked_tx"
    /\ UNCHANGED <<codec_vars, sched_vars, host_vars, saver_vars, hist_vars, pub_vars, p_impl,
                   lock_writer, w_pc, w_tx, w_rx, r_tx, r_rx, r_allowed,
                   complete_pair, updates>>

\* *offset copied out: first word
LockedLoadTx ==
    /\ r_pc = "locked_tx"
    /\ r_tx' = TRAFFIC_OFFSET_TX
    /\ r_pc' = "locked_rx"
    /\ UNCHANGED <<codec_vars, sched_vars, host_vars, saver_vars, hist_vars, pub_vars, p_impl,
                   lock_writer, lock_readers, w_pc, w_tx, w_rx, r_rx, r_allowed,
                   complete_pair, updates>>

\* *offset copied out: second word, then the guard is dropped
LockedLoadRx ==
    /\ r_pc = "locked_rx"
    /\ r_rx' = TRAFFIC_OFFSET_RX
    /\ lock_readers' = lock_readers - 1
    /\ r_pc' = "done"
    /\ UNCHANGED <<codec_vars, sched_vars, host_vars, saver_vars, hist_vars, pub_vars, p_impl,
                   lock_writer, w_pc, w_tx, w_rx, r_tx, r_allowed,
                   complete_pair, updates>>

\* realtime_network returns; the next report tick may call it again
ReadEnd ==
    /\ r_pc = "done"
    /\ r_pc' = "idle"
    /\ UNCHANGED <<codec_vars, sched_vars, host_vars, saver_vars, hist_vars, pub_vars, p_impl,
                   lock_writer, lock_readers, w_pc, w_tx, w_rx, r_tx, r_rx,
                   r_allowed, complete_pair, updates>>

InitPub == SchedIdle /\ DriverIdle /\ PublisherIdle /\ PubInit /\ CodecIdle /\ FileIdle

NextPub ==
    \/ \E p \in OffsetPairs : UpdateBegin(p[1], p[2])
    \/ AtomicStoreTx \/ AtomicStoreRx
    \/ LockWrite \/ LockedStoreTx \/ LockedStoreRx
    \/ ReadBegin
    \/ AtomicLoadTx \/ AtomicLoadRx
    \/ LockRead \/ LockedLoadTx \/ LockedLoadRx
    \/ ReadEnd

SpecPub == InitPub /\ [][NextPub]_vars

\* C5: a read of the offset pair that interleaves with update_traffic_offset
\* returns the complete previous pair or the complete new pair, never a mix,
\* with the atomics as well as with the reader/writer lock.
NoTornRead ==
    r_pc = "done" => <<r_tx, r_rx>> \in r_allowed

(***************************************************************************)
(* The codec as a pure function: records and texts drawn from bounded      *)
(* sets, encoded, altered the way another writer of the file could have    *)
(* left it, and decoded.                                                   *)
(***************************************************************************)
CodecConfig ==
    [disable_network_statistics |-> FALSE,
     network_interval           |-> 10,
     network_save_path          |-> <<"/","n","e","t">>,
     traffic_period             |-> "Month",
     traffic_reset_day          |-> <<"1">>]

CodecBase == MkInfo(CodecConfig, <<"B","1">>, 5, 2, 1709251200, 3, 1)

\* strings that hold no "\n" and neither start nor end with whitespace
PlainStrings ==
    { <<>>, <<"n">>, <<"a"," ","b">>, <<"a","=","b">>, <<"a","#">>, <<"#","a">>,
      <<"1","2","/","3","1">> }
\* the other strings
PaddedStrings ==
    { <<" ","a">>, <<"a"," ">>, <<"\t">>, <<"a",LF,"b">>, <<"a",LF>> }

OffsetValues == Sentinels \cup {-3, 0, 4}

RecordsWith(strings) ==
    {[CodecBase EXCEPT !.config.network_save_path = s] : s \in strings} \cup
    {[CodecBase EXCEPT !.config.traffic_reset_day = s] : s \in strings} \cup
    {[CodecBase EXCEPT !.boot_id = s] : s \in strings}

PlainRecords ==
    RecordsWith(PlainStrings) \cup
    {[CodecBase EXCEPT !.offset_tx = x, !.offset_rx = y] :
         x \in OffsetValues, y \in OffsetValues} \cup
    {[CodecBase EXCEPT !.config.traffic_period = p,
                       !.config.disable_network_statistics = b,
                       !.config.network_interval = n] :
         p \in {"Week", "Month", "Year"}, b \in BOOLEAN, n \in {0, 10}} \cup
    {[CodecBase EXCEPT !.cycle_total_tx = t, !.cycle_total_rx = 7 - t,
                       !.next_reset_timestamp = n] :
         t \in {0, 7}, n \in {-1, 0, 1709251200}}

CodecRecords == PlainRecords \cup RecordsWith(PaddedStrings)

CodecInit ==
    /\ c_pc = "record"
    /\ c_rec \in CodecRecords
    /\ c_text = <<>>
    /\ c_edit = NoEdit
    /\ c_dec = DecodeErr("none")

\* encode(r)
EncodeRecord ==
    /\ c_pc = "record"
    /\ c_text' = NetworkInfo_encode(c_rec)
    /\ c_pc' = "encoded"
    /\ UNCHANGED <<c_rec, c_edit, c_dec>>
    /\ UNCHANGED <<sched_vars, host_vars, saver_vars, pub_vars, task_vars, hist_vars,
                   file_vars>>

\* the key of a line written by encode
line_key(line) == match_key(SubSeq(line, 1, find_char(line, "=") - 1))

\* a text in which the lines of the keys in dropped are absent
DropLines(dropped) ==
    /\ c_pc = "encoded"
    /\ c_rec \in PlainRecords
    /\ c_text' = SelectSeq(c_text, LAMBDA l : line_key(l) \notin dropped)
    /\ c_edit' = [kind |-> "drop", what |-> dropped]
    /\ c_pc' = "edited"
    /\ UNCHANGED <<c_rec, c_dec>>
    /\ UNCHANGED <<sched_vars, host_vars, saver_vars, pub_vars, task_vars, hist_vars,
                   file_vars>>

\* values that do not parse as the type of their key
BadValues ==
    { <<"disable_network_statistics", <<"y","e","s">> >>,
      <<"disable_network_statistics", <<"T","r","u","e">> >>,
      <<"network_interval", <<"-","1">> >>,
      <<"network_interval", <<"x">> >>,
      <<"network_interval", <<>> >>,
      <<"traffic_period", <<"D","a","y">> >>,
      <<"traffic_period", <<"m","o","n","t","h">> >>,
      <<"cycle_total_tx", <<"-","5">> >>,
      <<"cycle_total_rx", <<"1",".","5">> >>,
      <<"next_reset_timestamp", <<"s","o","o","n">> >>,
      <<"offset_tx", <<"-">> >>,
      <<"offset_rx", <<"0","x","1">> >> }

\* a text in which the value of one key is replaced
CorruptValue(key, value) ==
    /\ c_pc = "encoded"
    /\ c_rec \in PlainRecords
    /\ c_text' = [i \in 1..Len(c_text) |->
                     IF line_key(c_text[i]) = key
                     THEN key_chars(key) \o <<"=">> \o value
                     ELSE c_text[i]]
    /\ c_edit' = [kind |-> "corrupt", what |-> <<key, value>>]
    /\ c_pc' = "edited"
    /\ UNCHANGED <<c_rec, c_dec>>
    /\ UNCHANGED <<sched_vars, host_vars, saver_vars, pub_vars, task_vars, hist_vars,
                   file_vars>>

\* lines decode passes over or matches with its catch-all arm
ExtraLines ==
    { <<>>,
      << <<>> >>,
      << <<" ", " ">> >>,
      << <<"#"," ","x">> >>,
      << <<" ","#","b","o","o","t","_","i","d","=","Z">> >>,
      << <<"f","o","o","=","1">> >>,
      << <<"=","5">> >>,
      << <<>>, <<"#">>, <<"s","o","u","r","c","e","_","t","x","=","9">> >> }

\* the same key=value lines in another order, with extra lines inserted
Relayout(reversed, rotation, extra, position) ==
    /\ c_pc = "encoded"
    /\ c_rec \in PlainRecords
    /\ position <= Len(c_text)
    /\ LET n == Len(c_text)
           moved == [i \in 1..n |->
                        c_text[(((IF reversed THEN n - i ELSE i - 1) + rotation) % n) + 1]]
       IN  c_text' = SubSeq(moved, 1, position) \o extra
                     \o SubSeq(moved, position + 1, n)
    /\ c_edit' = [kind |-> "layout", what |-> <<reversed, rotation, extra, position>>]
    /\ c_pc' = "edited"
    /\ UNCHANGED <<c_rec, c_dec>>
    /\ UNCHANGED <<sched_vars, host_vars, saver_vars, pub_vars, task_vars, hist_vars,
                   file_vars>>

\* decode(text)
DecodeText ==
    /\ c_pc \in {"encoded", "edited"}
    /\ c_dec' = NetworkInfo_decode(c_text)
    /\ c_pc' = "decoded"
    /\ UNCHANGED <<c_rec, c_text, c_edit>>
    /\ UNCHANGED <<sched_vars, host_vars, saver_vars, pub_vars, task_vars, hist_vars,
                   file_vars>>

InitCodec == SchedIdle /\ DriverIdle /\ PublisherIdle /\ TasksIdle /\ CodecInit /\ FileIdle

NextCodec ==
    \/ EncodeRecord
    \/ \E dropped \in SUBSET {RecordKeys[i] : i \in 1..Len(RecordKeys)} :
           /\ Cardinality(dropped) \in 1..MaxDropped
           /\ DropLines(dropped)
    \/ \E bad \in BadValues : CorruptValue(bad[1], bad[2])
    \/ \E reversed \in BOOLEAN, rotation \in 0..MaxRotation,
          extra \in ExtraLines, position \in {0, 5, 11} :
           Relayout(reversed, rotation, extra, position)
    \/ DecodeText

SpecCodec == InitCodec /\ [][NextCodec]_vars

(***************************************************************************)
(* Properties of the codec (checked under SpecCodec).                      *)
(***************************************************************************)
\* C13: decode(encode(r)) == r for every valid record r, field by field,
\* including sentinel and negative offsets, an empty boot_id, and string
\* fields drawn from every value the record type allows.
CodecRoundTrip ==
    (c_pc = "decoded" /\ c_edit.kind = "none") =>
        (c_dec.ok /\ c_dec.info = c_rec)

\* a text without the lines of some keys has been decoded
DroppedAndDecoded == c_pc = "decoded" /\ c_edit.kind = "drop"

\* C14 as claimed: decode fails with a missing-field error whenever any
\* current key other than offset_tx and offset_rx is absent from the text.
DecodeMissingAnyKey ==
    (DroppedAndDecoded
       /\ c_edit.what \cap {"disable_network_statistics", "network_interval",
                            "network_save_path", "traffic_period",
                            "traffic_reset_day", "boot_id", "cycle_total_tx",
                            "cycle_total_rx", "next_reset_timestamp"} # {}) =>
        (~c_dec.ok /\ c_dec.err = "missing")

\* C14 amended: decode fails with a missing-field error whenever any of
\* disable_network_statistics, network_interval, network_save_path, boot_id,
\* cycle_total_tx, cycle_total_rx, next_reset_timestamp is absent; when only
\* other keys are absent it succeeds, an absent traffic_period decoding as
\* Month, an absent traffic_reset_day as "1" and an absent offset as i64::MIN.
DecodeMissingField ==
    DroppedAndDecoded =>
        IF c_edit.what \cap {"disable_network_statistics", "network_interval",
                             "network_save_path", "boot_id", "cycle_total_tx",
                             "cycle_total_rx", "next_reset_timestamp"} # {}
        THEN ~c_dec.ok /\ c_dec.err = "missing"
        ELSE /\ c_dec.ok
             /\ c_dec.info =
                  [c_rec EXCEPT
                     !.config.traffic_period =
                         IF "traffic_period" \in c_edit.what THEN "Month" ELSE @,
                     !.config.traffic_reset_day =
                         IF "traffic_reset_day" \in c_edit.what THEN <<"1">> ELSE @,
                     !.offset_tx =
                         IF "offset_tx" \in c_edit.what THEN I64_MIN ELSE @,
                     !.offset_rx =
                         IF "offset_rx" \in c_edit.what THEN I64_MIN ELSE @]

\* C14 witness: a text without its boot_id line was decoded and refused
DecodeMissingFieldWitness ==
    /\ DroppedAndDecoded
    /\ c_edit.what = {"boot_id"}
    /\ c_dec.err = "missing"

\* C15: decode fails with an invalid-value error whenever a recognised key
\* is present with a value that does not parse as its type: a non-boolean
\* disable_network_statistics, a non-u32 network_interval, a traffic_period
\* other than Week / Month / Year, a non-u64 cycle total, a non-i64
\* next_reset_timestamp or offset.
DecodeInvalidValue ==
    (c_pc = "decoded" /\ c_edit.kind = "corrupt") =>
        (~c_dec.ok /\ c_dec.err = "invalid")

\* C16: permuting the key=value lines, inserting blank lines, lines that
\* start with '#' and lines with unknown keys leaves the decoded record
\* unchanged.
DecodeLayoutInsensitive ==
    (c_pc = "decoded" /\ c_edit.kind = "layout") =>
        (c_dec.ok /\ c_dec.err = "none" /\ c_dec.info = c_rec)

\* C16 witness: the lines reversed and rotated, with a blank line, a '#'
\* line and an unknown key inserted in the middle, decoded to the record
DecodeLayoutWitness ==
    /\ c_pc = "decoded"
    /\ c_edit.kind = "layout"
    /\ c_edit.what[1] = TRUE
    /\ c_edit.what[2] = 3
    /\ Len(c_edit.what[3]) = 3
    /\ c_edit.what[4] = 5
    /\ c_dec.ok
    /\ c_dec.info = c_rec
    /\ c_rec.offset_tx = SentinelReboot

(***************************************************************************)
(* Properties of the accounting driver across runs (checked under Spec).   *)
(***************************************************************************)
\* C17: within one cycle (same next_reset_timestamp, same config) the
\* persisted cycle_total_tx and cycle_total_rx never decrease from one write
\* to the next, across sample-loop iterations, process restarts and host
\* reboots, with and without a host boot identifier.  Only histories that
\* began with an empty file are looked at, so that every persisted value was
\* written by the driver from counters that grow while the host is up and
\* restart from zero at a reboot.
CycleTotalsMonotone ==
    [][ (/\ rec'.origin = "fresh"
         /\ decode(file).ok
         /\ decode(file').ok
         /\ decode(file').info.config = decode(file).info.config
         /\ decode(file').info.next_reset_timestamp =
                decode(file).info.next_reset_timestamp) =>
          /\ decode(file').info.cycle_total_tx >= decode(file).info.cycle_total_tx
          /\ decode(file').info.cycle_total_rx >= decode(file).info.cycle_total_rx
      ]_vars

\* C18: with disable_network_statistics set the driver returns at once: it
\* does not open, create or write the file and publishes no offset, so the
\* published pair stays (0, 0) and the reporting path shows the raw totals.
DisabledDoesNothing ==
    [][ /\ args_config.disable_network_statistics =>
              /\ file' = file
              /\ network_info' = network_info
              /\ d_pc' \in {"init", "stopped"}
        /\ args_config'.disable_network_statistics =>
              /\ TRAFFIC_OFFSET_TX' = 0
              /\ TRAFFIC_OFFSET_RX' = 0
              /\ realtime_total(counter_tx', TRAFFIC_OFFSET_TX') = counter_tx'
              /\ realtime_total(counter_rx', TRAFFIC_OFFSET_RX') = counter_rx'
      ]_vars

\* C18 witness: started with statistics disabled after a run that had written
\* the file, the driver has returned while the interfaces carried traffic
DisabledWitness ==
    /\ d_pc = "stopped"
    /\ args_config.disable_network_statistics
    /\ starts = 1
    /\ rec.origin = "fresh"
    /\ decode(file).ok
    /\ counter_tx > 0
    /\ TRAFFIC_OFFSET_TX = 0
    /\ TRAFFIC_OFFSET_RX = 0

\* a step of the driver taken at the start of State Recovery
RecoveryStep ==
    /\ d_pc = "init"
    /\ ~args_config.disable_network_statistics
    /\ starts' = starts
    /\ counter_tx' = counter_tx

\* C19: when State Recovery cannot open, create, read or first-write the
\* file the driver stops for the rest of the process: no further recovery or
\* sample iteration, no retry; the reporting path goes on returning
\* max(0, raw + last published offset).
RecoveryFailureStops ==
    [][ /\ (RecoveryStep /\ rec'.io \in {"open_err", "save_err_early", "save_err_late"}) =>
              /\ d_pc' = "stopped"
              /\ network_info' = network_info
        /\ (d_pc = "stopped" /\ starts' = starts) =>
              /\ d_pc' = "stopped"
              /\ file' = file
              /\ rec' = rec
              /\ UNCHANGED <<network_info, offset_tx, offset_rx>>
              /\ UNCHANGED <<TRAFFIC_OFFSET_TX, TRAFFIC_OFFSET_RX>>
              /\ realtime_total(counter_tx', TRAFFIC_OFFSET_TX') =
                     Max(counter_tx' + TRAFFIC_OFFSET_TX, 0)
              /\ realtime_total(counter_rx', TRAFFIC_OFFSET_RX') =
                     Max(counter_rx' + TRAFFIC_OFFSET_RX, 0)
      ]_vars

\* C19 witness: the first write of State Recovery failed, the driver is
\* stopped and the interfaces carried traffic
RecoveryFailureWitness ==
    /\ d_pc = "stopped"
    /\ ~args_config.disable_network_statistics
    /\ rec.io = "save_err_late"
    /\ file = EmptyFile
    /\ counter_tx > 0

\* an iteration of the sample loop before the end of the cycle
SampleStep ==
    /\ d_pc = "cycle"
    /\ clock < network_info.next_reset_timestamp
    /\ starts' = starts
    /\ clock' = clock
    /\ counter_tx' = counter_tx

\* C20: a write failure inside the sample loop does not end the loop: the
\* driver stays in the same cycle with the same offset and next_reset_at, and
\* the write is attempted again on the next iteration, so that once a write
\* succeeds the file holds the record computed from the latest raw sample.
SampleWriteRetried ==
    [][ SampleStep =>
          /\ d_pc' = "cycle"
          /\ UNCHANGED <<offset_tx, offset_rx, TRAFFIC_OFFSET_TX, TRAFFIC_OFFSET_RX>>
          /\ network_info'.next_reset_timestamp = network_info.next_reset_timestamp
          /\ network_info'.cycle_total_tx = Max(counter_tx + offset_tx, 0)
          /\ network_info'.cycle_total_rx = Max(counter_rx + offset_rx, 0)
          /\ (smp' # "failed" => file' = encode(network_info'))
      ]_vars

\* C20 witness: after a failed write of the sample loop a later iteration
\* wrote the record of the current raw sample
SampleWriteRetriedWitness ==
    /\ d_pc = "cycle"
    /\ smp = "retried"
    /\ counter_tx > 0
    /\ file = encode(network_info)
    /\ network_info.cycle_total_tx = Max(counter_tx + offset_tx, 0)
    /\ network_info.cycle_total_rx = Max(counter_rx + offset_rx, 0)

\* a step taken by the driver from inside the sample loop
LoopStep ==
    /\ d_pc = "cycle"
    /\ clock' = clock
    /\ starts' = starts
    /\ counter_tx' = counter_tx

\* C21: the sample loop never writes the record at an instant now >=
\* next_reset_at: on the first iteration at or past next_reset_at it leaves
\* the loop without persisting and without changing cycle_total, and every
\* write made inside the sample loop happens at an instant strictly before
\* next_reset_at.
SampleLoopStopsAtReset ==
    [][ LoopStep =>
          /\ clock >= network_info.next_reset_timestamp =>
                /\ d_pc' = "init"
                /\ file' = file
                /\ network_info' = network_info
          /\ file' # file => clock < network_info.next_reset_timestamp
      ]_vars

\* C21 witness: the loop was left exactly at next_reset_at; the file still
\* holds the last record written before that instant although the interfaces
\* carried traffic since
SampleLoopStopsWitness ==
    /\ d_pc = "init"
    /\ ticks = 1
    /\ rec.ok
    /\ clock = network_info.next_reset_timestamp
    /\ file = encode(network_info)
    /\ network_info.cycle_total_tx < counter_tx + offset_tx

\* a successful run of State Recovery that follows an exit from the sample
\* loop of the same process
RolloverStep ==
    /\ d_pc = "init"
    /\ network_info # NoInfo
    /\ d_pc' = "cycle"

\* C22: whenever the sample loop exits because now >= next_reset_at, the State
\* Recovery run that follows zeroes cycle_total_tx/rx, sets next_reset_at to a
\* value strictly greater than now, resolves the offset to 0 - raw_sample in
\* each direction, publishes it and persists the record before any further
\* sample-loop iteration.
InProcessRollover ==
    [][ RolloverStep =>
          /\ network_info'.cycle_total_tx = 0
          /\ network_info'.cycle_total_rx = 0
          /\ network_info'.next_reset_timestamp > clock
          /\ network_info'.offset_tx = 0 - counter_tx
          /\ network_info'.offset_rx = 0 - counter_rx
          /\ TRAFFIC_OFFSET_TX' = 0 - counter_tx
          /\ TRAFFIC_OFFSET_RX' = 0 - counter_rx
          /\ file' = encode(network_info')
      ]_vars

\* C23: when the persisted file is empty (or has just been created), State
\* Recovery persists a record with cycle_total_tx = cycle_total_rx = 0,
\* config = the current config, boot_id = the boot id read from the host,
\* next_reset_at = next_reset(now), and publishes and persists the offset pair
\* (0, 0) whatever the raw sample is.
FreshFile ==
    [][ (RecoveredStep /\ file = EmptyFile) =>
          /\ network_info'.cycle_total_tx = 0
          /\ network_info'.cycle_total_rx = 0
          /\ network_info'.config = args_config
          /\ network_info'.boot_id \in boot_id_readings
          /\ network_info'.next_reset_timestamp =
                 calculate_next_reset_timestamp(args_config, clock).ts
          /\ network_info'.offset_tx = 0
          /\ network_info'.offset_rx = 0
          /\ TRAFFIC_OFFSET_TX' = 0
          /\ TRAFFIC_OFFSET_RX' = 0
          /\ file' = encode(network_info')
      ]_vars

\* C23 witness: a first start on an empty file with a raw sample of (1, 2)
\* persisted zero totals and the offset pair (0, 0)
FreshFileWitness ==
    /\ d_pc = "cycle"
    /\ starts = 0
    /\ rec.ok /\ rec.source = "fresh"
    /\ counter_tx = 1 /\ counter_rx = 2
    /\ network_info.boot_id = host_boot_id
    /\ network_info.cycle_total_tx = 0 /\ network_info.cycle_total_rx = 0
    /\ network_info.offset_tx = 0 /\ network_info.offset_rx = 0
    /\ TRAFFIC_OFFSET_TX = 0 /\ TRAFFIC_OFFSET_RX = 0
    /\ file = encode(network_info)

\* the legacy file holds both totals and both parse as u64
LegacySeeded ==
    /\ {"source_tx", "source_rx"} \subseteq DOMAIN file
    /\ file["source_tx"] >= 0
    /\ file["source_rx"] >= 0

LegacySeedTx == IF LegacySeeded THEN file["source_tx"] ELSE 0
LegacySeedRx == IF LegacySeeded THEN file["source_rx"] ELSE 0

\* C24: a non-empty file that fails to decode never makes State Recovery
\* fail: when the file calls succeed and the scheduler accepts the config,
\* recovery succeeds with a fresh record for the current config whose
\* cycle_total_tx/rx are the legacy source_tx / source_rx values when both
\* keys are present and parse as u64, and (0, 0) otherwise; when the seeded
\* totals are not both zero the resolved offset is seeded_total - raw_sample
\* in each direction.
MigrationRebuilds ==
    [][ (/\ RecoveryStep
         /\ file # EmptyFile
         /\ ~decode(file).ok
         /\ rec' # rec
         /\ rec'.io = "ok"
         /\ calculate_next_reset_timestamp(args_config, clock).ok) =>
          /\ d_pc' = "cycle"
          /\ network_info'.config = args_config
          /\ network_info'.next_reset_timestamp =
                 calculate_next_reset_timestamp(args_config, clock).ts
          /\ network_info'.cycle_total_tx = LegacySeedTx
          /\ network_info'.cycle_total_rx = LegacySeedRx
          /\ (LegacySeedTx # 0 \/ LegacySeedRx # 0) =>
                /\ network_info'.offset_tx = LegacySeedTx - counter_tx
                /\ network_info'.offset_rx = LegacySeedRx - counter_rx
          /\ TRAFFIC_OFFSET_TX' = network_info'.offset_tx
          /\ TRAFFIC_OFFSET_RX' = network_info'.offset_rx
          /\ file' = encode(network_info')
      ]_vars

\* C24 witness: the legacy totals (4, 3) were taken over against a raw sample
\* of (1, 2)
MigrationWitness ==
    /\ d_pc = "cycle"
    /\ rec.ok /\ rec.source = "migrated"
    /\ counter_tx = 1 /\ counter_rx = 2
    /\ network_info.cycle_total_tx = 4 /\ network_info.cycle_total_rx = 3
    /\ network_info.offset_tx = 3 /\ network_info.offset_rx = 1
    /\ file = encode(network_info)

\* the file holds every required key and neither offset
LacksOffsets ==
    /\ DecodeRequiredKeys \subseteq DOMAIN file
    /\ "offset_tx" \notin DOMAIN file
    /\ "offset_rx" \notin DOMAIN file

\* C25: a record that lacks both offset_tx and offset_rx decodes successfully
\* with both offsets equal to the generic-invalidation sentinel, and State
\* Recovery on such a record (config unchanged, no rollover, no reboot)
\* resolves the offset to stored cycle_total - raw_sample in each direction
\* while leaving cycle_total as stored.
AbsentOffsetsAreGeneric ==
    [][ /\ LacksOffsets =>
              /\ decode(file).ok
              /\ Stored.offset_tx = SentinelGeneric
              /\ Stored.offset_rx = SentinelGeneric
        /\ (RecoveredStep /\ LacksOffsets /\ Stored.config = args_config
              /\ clock < Stored.next_reset_timestamp
              /\ ~is_reboot(Stored, target_linux, network_info'.boot_id)) =>
              /\ network_info'.cycle_total_tx = Stored.cycle_total_tx
              /\ network_info'.cycle_total_rx = Stored.cycle_total_rx
              /\ network_info'.offset_tx = Stored.cycle_total_tx - counter_tx
              /\ network_info'.offset_rx = Stored.cycle_total_rx - counter_rx
              /\ TRAFFIC_OFFSET_TX' = Stored.cycle_total_tx - counter_tx
              /\ TRAFFIC_OFFSET_RX' = Stored.cycle_total_rx - counter_rx
              /\ file' = encode(network_info')
      ]_vars

\* C25 witness: the stored totals (5, 2) without offsets, recovered in the
\* same cycle against a raw sample of (1, 2), gave the offset pair (4, 0)
AbsentOffsetsWitness ==
    /\ d_pc = "cycle"
    /\ starts = 0 /\ ticks = 0
    /\ rec.ok /\ rec.source = "decoded" /\ rec.path = "generic"
    /\ ~rec.rolled /\ ~rec.config_changed /\ ~rec.reboot
    /\ counter_tx = 1 /\ counter_rx = 2
    /\ network_info.cycle_total_tx = 5 /\ network_info.cycle_total_rx = 2
    /\ network_info.offset_tx = 4 /\ network_info.offset_rx = 0
    /\ TRAFFIC_OFFSET_TX = 4 /\ TRAFFIC_OFFSET_RX = 0
    /\ file = encode(network_info)

\* C26: reboot detection is negative whenever the host boot identifier is
\* unavailable (empty string or unsupported platform): State Recovery never
\* sets the reboot sentinel, whatever boot_id is stored in the record, and the
\* offset is resolved by the other rules only; in particular a stored offset
\* that is no sentinel is kept when the config is unchanged and the cycle has
\* not ended.
NoBootIdNoReboot ==
    [][ (RecoveredStep /\ (~target_linux \/ network_info'.boot_id = "")) =>
          /\ ~rec'.reboot
          /\ rec'.path # "reboot"
          /\ (decode(file).ok /\ Stored.config = args_config
                /\ clock < Stored.next_reset_timestamp
                /\ Stored.offset_tx \notin Sentinels) =>
                /\ network_info'.offset_tx = Stored.offset_tx
                /\ network_info'.offset_rx = Stored.offset_rx
          /\ (decode(file).ok /\ Stored.config = args_config
                /\ clock >= Stored.next_reset_timestamp) =>
                /\ network_info'.offset_tx = 0 - counter_tx
                /\ network_info'.offset_rx = 0 - counter_rx
      ]_vars

\* C26 witness: on Linux the boot id could not be read; the record on disk
\* held a boot id ("A" or "B") and its offsets (3, 1) were kept
NoBootIdWitness ==
    /\ d_pc = "cycle"
    /\ starts = 0 /\ ticks = 0
    /\ target_linux
    /\ rec.ok /\ rec.source = "decoded" /\ rec.path = "kept" /\ ~rec.reboot
    /\ network_info.boot_id = ""
    /\ network_info.offset_tx = 3 /\ network_info.offset_rx = 1
    /\ file = encode(network_info)

\* C27: for the same raw sample and the same published offset, the total
\* shown by the reporting path and the cycle_total written by the sample loop
\* are the same value max(0, raw + offset) in each direction, and neither is
\* ever negative: a raw + offset below zero is reported and persisted as 0.
ReportedEqualsPersisted ==
    [][ SampleWriteStep =>
          /\ network_info'.cycle_total_tx = realtime_total(counter_tx, TRAFFIC_OFFSET_TX)
          /\ network_info'.cycle_total_rx = realtime_total(counter_rx, TRAFFIC_OFFSET_RX)
          /\ network_info'.cycle_total_tx = Max(counter_tx + TRAFFIC_OFFSET_TX, 0)
          /\ network_info'.cycle_total_rx = Max(counter_rx + TRAFFIC_OFFSET_RX, 0)
          /\ network_info'.cycle_total_tx >= 0
          /\ network_info'.cycle_total_rx >= 0
          /\ realtime_total(counter_tx, TRAFFIC_OFFSET_TX) >= 0
          /\ realtime_total(counter_rx, TRAFFIC_OFFSET_RX) >= 0
          /\ (DOMAIN file' # {} /\ file' # file) => file' = encode(network_info')
      ]_vars

\* C27 witness: raw + offset is below zero in both directions (an offset
\* resolved before a reboot that went undetected) and the record written by
\* the sample loop holds 0, which is also what the reporting path shows
ReportedFlooredWitness ==
    /\ d_pc = "cycle"
    /\ counter_tx + TRAFFIC_OFFSET_TX < 0
    /\ counter_rx + TRAFFIC_OFFSET_RX < 0
    /\ offset_tx = TRAFFIC_OFFSET_TX /\ offset_rx = TRAFFIC_OFFSET_RX
    /\ network_info.cycle_total_tx = 0 /\ network_info.cycle_total_rx = 0
    /\ realtime_total(counter_tx, TRAFFIC_OFFSET_TX) = 0
    /\ realtime_total(counter_rx, TRAFFIC_OFFSET_RX) = 0
    /\ smp = "none"
    /\ file = encode(network_info)
    /\ rec.path = "kept"

\* C28: after every successful State Recovery the persisted record satisfies:
\* config equals the current config, boot_id equals the boot identifier read
\* from the host (empty when unavailable), and next_reset_at is strictly
\* greater than the instant now read by that recovery.
RecoveredRecord ==
    [][ RecoveredStep =>
          /\ file' = encode(network_info')
          /\ decode(file').ok
          /\ decode(file').info.config = args_config
          /\ decode(file').info.boot_id \in boot_id_readings
          /\ decode(file').info.next_reset_timestamp > clock
      ]_vars

\* C28 witness: a record of another config and another boot, whose cycle had
\* ended, was recovered
RecoveredRecordWitness ==
    /\ d_pc = "cycle"
    /\ starts = 0 /\ ticks = 0
    /\ rec.ok /\ rec.source = "decoded" /\ rec.config_changed /\ rec.reboot
    /\ args_config = CfgWeek
    /\ file = encode(network_info)
    /\ network_info.config = args_config
    /\ network_info.boot_id = host_boot_id
    /\ network_info.next_reset_timestamp > clock

\* State Recovery calls the scheduler for the file it finds
SchedulerNeeded ==
    \/ file = EmptyFile
    \/ ~decode(file).ok
    \/ Stored.config # args_config
    \/ clock >= Stored.next_reset_timestamp

\* C29: when the Calendar Scheduler rejects the current configuration during
\* State Recovery, recovery returns an error before it publishes an offset and
\* before it writes the record: the published offset pair and the content of
\* the persisted file are the same as before the recovery started, and the
\* driver stops.
SchedulerRejectStops ==
    [][ (/\ RecoveryStep
         /\ SchedulerNeeded
         /\ ~calculate_next_reset_timestamp(args_config, clock).ok) =>
          /\ d_pc' = "stopped"
          /\ file' = file
          /\ TRAFFIC_OFFSET_TX' = TRAFFIC_OFFSET_TX
          /\ TRAFFIC_OFFSET_RX' = TRAFFIC_OFFSET_RX
          /\ UNCHANGED <<network_info, offset_tx, offset_rx>>
      ]_vars

\* C29 witness: the cycle of a Year 02/29 record ended on 2024-02-29, the
\* scheduler refused 02/29 for 2025 and the driver stopped, leaving the file
\* and the published pair as the sample loop left them
SchedulerRejectWitness ==
    /\ d_pc = "stopped"
    /\ args_config = CfgYear
    /\ ~rec.ok /\ rec.io = "ok" /\ rec.rolled
    /\ ~calculate_next_reset_timestamp(args_config, clock).ok
    /\ counter_tx > 0
    /\ file = encode(network_info)
    /\ network_info.cycle_total_tx = 0
    /\ TRAFFIC_OFFSET_TX = offset_tx
    /\ clock >= network_info.next_reset_timestamp

(***************************************************************************)
(* Acceptance of a Year spec at different instants (checked under          *)
(* SpecSched).                                                             *)
(***************************************************************************)
\* instants of a non-leap year, and of a leap year before and after 29 Feb
ReferenceNows ==
    { midnight_timestamp(MkDate(2023, 6, 1)),
      midnight_timestamp(MkDate(2024, 1, 15)) + 43200,
      midnight_timestamp(MkDate(2024, 3, 1)) }

\* C30: in Year mode, whether next_reset accepts a spec MM/DD does not depend
\* on now: a spec accepted at one instant is accepted at every instant, and a
\* spec rejected at one instant is rejected at every instant.
YearAcceptanceFixed ==
    (SchedCalled /\ s_config.traffic_period = "Year") =>
        \A n \in ReferenceNows :
            calculate_next_reset_timestamp(s_config, n).ok = s_first.ok

\* C31: a cycle boundary that passed while the agent was not running is never
\* skipped: whenever the record loaded by State Recovery has next_reset_at <=
\* now, the record persisted by that recovery has cycle_total_tx =
\* cycle_total_rx = 0, whether or not the current config differs from the
\* stored config snapshot.
BoundaryNeverSkipped ==
    [][ (RecoveredStep /\ decode(file).ok
           /\ Stored.next_reset_timestamp <= clock) =>
          /\ file' = encode(network_info')
          /\ network_info'.cycle_total_tx = 0
          /\ network_info'.cycle_total_rx = 0
      ]_vars

\* between the end of a successful State Recovery and the start of the next
InCycle == d_pc = "cycle" \/ (d_pc = "init" /\ network_info # NoInfo)

\* C32: from the end of each successful State Recovery until the next one
\* starts, the published pair, the offset_tx/offset_rx held in the driver's
\* in-memory record, the offset the sample loop adds to raw samples, and the
\* offsets in every record the driver writes are all equal.
OffsetsInStep ==
    InCycle =>
        /\ TRAFFIC_OFFSET_TX = offset_tx
        /\ TRAFFIC_OFFSET_RX = offset_rx
        /\ network_info.offset_tx = offset_tx
        /\ network_info.offset_rx = offset_rx
        /\ file # EmptyFile =>
              /\ decode(file).ok
              /\ file["offset_tx"] = offset_tx
              /\ file["offset_rx"] = offset_rx

\* C32 witness: an offset pair resolved against the raw sample is the same in
\* the published cell, in the record in memory, in the loop and in the file
\* that the sample loop wrote after a failed write
OffsetsInStepWitness ==
    /\ d_pc = "cycle"
    /\ smp = "retried"
    /\ rec.path = "generic"
    /\ offset_tx = 4 /\ offset_rx = 0
    /\ TRAFFIC_OFFSET_TX = 4 /\ TRAFFIC_OFFSET_RX = 0
    /\ network_info.offset_tx = 4 /\ network_info.offset_rx = 0
    /\ file # EmptyFile
    /\ file["offset_tx"] = 4 /\ file["offset_rx"] = 0

\* C34: a sample-loop iteration changes only cycle_total_tx and
\* cycle_total_rx: the config, boot_id, next_reset_at, offset_tx and offset_rx
\* of the record it writes are the ones produced by the State Recovery that
\* started the cycle, and it does not change the published offset.
SampleChangesTotalsOnly ==
    [][ SampleWriteStep =>
          /\ network_info'.config = network_info.config
          /\ network_info'.boot_id = network_info.boot_id
          /\ network_info'.next_reset_timestamp = network_info.next_reset_timestamp
          /\ network_info'.offset_tx = network_info.offset_tx
          /\ network_info'.offset_rx = network_info.offset_rx
          /\ TRAFFIC_OFFSET_TX' = TRAFFIC_OFFSET_TX
          /\ TRAFFIC_OFFSET_RX' = TRAFFIC_OFFSET_RX
          /\ (file' # EmptyFile /\ file' # file) =>
                file' = [encode(network_info) EXCEPT
                            !["cycle_total_tx"] = network_info'.cycle_total_tx,
                            !["cycle_total_rx"] = network_info'.cycle_total_rx]
      ]_vars

\* C34 witness: a sample-loop write changed the totals of the record that a
\* reboot recovery had produced (offset 5, totals 5/2) and nothing else
SampleChangesTotalsWitness ==
    /\ d_pc = "cycle"
    /\ smp = "none"
    /\ rec.path = "reboot" /\ rec.source = "decoded"
    /\ ~rec.rolled /\ ~rec.config_changed
    /\ counter_tx = 1 /\ counter_rx = 2
    /\ network_info.cycle_total_tx = 6 /\ network_info.cycle_total_rx = 4
    /\ network_info.offset_tx = 5 /\ network_info.offset_rx = 2
    /\ network_info.boot_id = host_boot_id
    /\ TRAFFIC_OFFSET_TX = 5 /\ TRAFFIC_OFFSET_RX = 2
    /\ file = encode(network_info)

\* C35: when one State Recovery run detects both a cycle rollover (now >=
\* next_reset_at) and a reboot, the reboot rule is the one applied: totals are
\* zeroed, the resolved offset is (0, 0) rather than 0 - raw_sample, and the
\* first sample of the new cycle reports the raw counter value itself.
RolloverWithReboot ==
    [][ /\ (RecoveredStep /\ decode(file).ok /\ Stored.config = args_config
              /\ clock >= Stored.next_reset_timestamp
              /\ target_linux /\ network_info'.boot_id # ""
              /\ Stored.boot_id # network_info'.boot_id) =>
              /\ network_info'.cycle_total_tx = 0
              /\ network_info'.cycle_total_rx = 0
              /\ network_info'.offset_tx = 0
              /\ network_info'.offset_rx = 0
              /\ TRAFFIC_OFFSET_TX' = 0
              /\ TRAFFIC_OFFSET_RX' = 0
              /\ file' = encode(network_info')
        /\ (SampleWriteStep /\ rec.rolled /\ rec.reboot) =>
              /\ network_info'.cycle_total_tx = counter_tx
              /\ network_info'.cycle_total_rx = counter_rx
              /\ realtime_total(counter_tx, TRAFFIC_OFFSET_TX) = counter_tx
              /\ realtime_total(counter_rx, TRAFFIC_OFFSET_RX) = counter_rx
      ]_vars

\* C35 witness: the record of boot "A" whose cycle ended on 2024-02-01 was
\* recovered after a reboot with a raw sample of (1, 2), and the first sample
\* of the new cycle wrote the totals (1, 2)
RolloverWithRebootWitness ==
    /\ d_pc = "cycle"
    /\ starts = 0
    /\ rec.ok /\ rec.source = "decoded" /\ rec.rolled /\ rec.reboot
    /\ ~rec.config_changed
    /\ counter_tx = 1 /\ counter_rx = 2
    /\ offset_tx = 0 /\ offset_rx = 0
    /\ TRAFFIC_OFFSET_TX = 0 /\ TRAFFIC_OFFSET_RX = 0
    /\ network_info.cycle_total_tx = 1 /\ network_info.cycle_total_rx = 2
    /\ file = encode(network_info)

\* C36: on the fresh-file sentinel path the zero test covers both directions
\* together: the offset pair is (0, 0) only when cycle_total_tx and
\* cycle_total_rx are both 0; when exactly one of the migrated totals is 0,
\* both directions get offset = cycle_total - raw_sample, so the zero
\* direction gets a negative offset equal to minus its raw sample.
FreshZeroTestJoint ==
    [][ (RecoveredStep /\ (file = EmptyFile \/ ~decode(file).ok)) =>
          /\ (network_info'.cycle_total_tx = 0 /\ network_info'.cycle_total_rx = 0) =>
                /\ network_info'.offset_tx = 0
                /\ network_info'.offset_rx = 0
          /\ (network_info'.cycle_total_tx # 0 \/ network_info'.cycle_total_rx # 0) =>
                /\ network_info'.offset_tx = network_info'.cycle_total_tx - counter_tx
                /\ network_info'.offset_rx = network_info'.cycle_total_rx - counter_rx
          /\ (network_info'.cycle_total_tx # 0 /\ network_info'.cycle_total_rx = 0) =>
                network_info'.offset_rx = 0 - counter_rx
          /\ TRAFFIC_OFFSET_TX' = network_info'.offset_tx
          /\ TRAFFIC_OFFSET_RX' = network_info'.offset_rx
      ]_vars

\* C36 witness: the legacy totals (4, 0) were taken over against a raw sample
\* of (1, 2): the offsets are (3, -2)
FreshZeroTestWitness ==
    /\ d_pc = "cycle"
    /\ rec.ok /\ rec.source = "migrated" /\ rec.path = "fresh_seeded"
    /\ counter_tx = 1 /\ counter_rx = 2
    /\ network_info.cycle_total_tx = 4 /\ network_info.cycle_total_rx = 0
    /\ network_info.offset_tx = 3 /\ network_info.offset_rx = -2
    /\ TRAFFIC_OFFSET_TX = 3 /\ TRAFFIC_OFFSET_RX = -2
    /\ file = encode(network_info)

\* months counted from year 0
MonthIndex(date) == date.year * 12 + date.month

\* the instant is midnight of day min(d, days_in(its month))
MonthResetInstant(ts, d) ==
    /\ ts % SecondsPerDay = 0
    /\ date_of(ts).day = Min(d, month_length(date_of(ts).year, date_of(ts).month))

\* C37: in Month mode, iterating next_reset visits every following calendar
\* month exactly once: each result is midnight of day min(d, days_in(that
\* month)), the first result lies in the month of the start instant or in the
\* month after it, and a result computed from a reset instant lies in the
\* month right after that instant's month.
MonthIterationVisitsEachMonth ==
    /\ (SchedCalled /\ MonthSpecAccepted) =>
         /\ s_first.ok
         /\ s_first.ts > s_now
         /\ MonthResetInstant(s_first.ts, MonthSpecDay)
         /\ MonthIndex(date_of(s_first.ts)) \in
              { MonthIndex(date_of(s_now)), MonthIndex(date_of(s_now)) + 1 }
         /\ MonthResetInstant(s_now, MonthSpecDay) =>
              MonthIndex(date_of(s_first.ts)) = MonthIndex(date_of(s_now)) + 1
    /\ (s_pc = "second" /\ MonthSpecAccepted) =>
         /\ s_second.ok
         /\ MonthResetInstant(s_second.ts, MonthSpecDay)
         /\ MonthIndex(date_of(s_second.ts)) = MonthIndex(date_of(s_first.ts)) + 1

\* C37 witness: day 31 iterated from noon of 2024-01-30 gave 2024-01-31 and
\* then 2024-02-29, the clamped day of the following month
MonthIterationWitness ==
    /\ s_pc = "second"
    /\ s_config = MkConfig("Month", <<"3","1">>)
    /\ s_now = 1706572800 + 43200
    /\ s_first.ts = 1706659200
    /\ s_second.ts = 1709164800

\* a step in which the running agent stops and is started again
StoppedInCycle == d_pc = "cycle" /\ d_pc' = "init" /\ starts' = starts + 1

\* C33: when the process stops inside a persist operation of the sample loop
\* while the file holds a complete record, the file afterwards holds the
\* complete previous record or the complete new record, so the next State
\* Recovery decodes it (no fresh-file path) and the accumulated cycle_total
\* is not lost.
PersistCrashConsistent ==
    [][ (StoppedInCycle /\ decode(file).ok) =>
          /\ \/ file' = file
             \/ file' = encode(sample_record(network_info, counter_tx, counter_rx,
                                             offset_tx, offset_rx))
          /\ load_source(file') = "decoded"
          /\ decode(file').info.cycle_total_tx \in
                {Stored.cycle_total_tx, Max(counter_tx + offset_tx, 0)}
          /\ decode(file').info.cycle_total_rx \in
                {Stored.cycle_total_rx, Max(counter_rx + offset_rx, 0)}
      ]_vars

(***************************************************************************)
(* The file handle of network_save_path: opened and read to its end by     *)
(* State Recovery, then written by every save_network_info.                *)
(***************************************************************************)
\* the byte a hole of the file reads as
NUL == "NUL"

\* the string whose lines are given: every line is followed by "\n"
RECURSIVE join_lines(_)
join_lines(lines) ==
    IF Len(lines) = 0 THEN <<>>
    ELSE Head(lines) \o <<LF>> \o join_lines(Tail(lines))

\* str::lines: the final line ending is optional
str_lines(s) ==
    IF Len(s) = 0 THEN <<>>
    ELSE IF s[Len(s)] = LF THEN split_lines(SubSeq(s, 1, Len(s) - 1))
    ELSE split_lines(s)

\* a file of n holes
RECURSIVE zeros(_)
zeros(n) == IF n <= 0 THEN <<>> ELSE <<NUL>> \o zeros(n - 1)

MkFile(data, pos) == [data |-> data, pos |-> pos]

\* File::read_to_string: the rest of the file; the cursor ends at its end
file_read_to_string(f) == MkFile(f.data, Max(f.pos, Len(f.data)))

\* File::rewind
file_rewind(f) == MkFile(f.data, 0)

\* variant of file_set_len that leaves the length alone
file_set_len_kept(f, size) == f

\* File::set_len: the cursor stays where it is
file_set_len(f, size) ==
    MkFile(IF size <= Len(f.data) THEN SubSeq(f.data, 1, size)
           ELSE f.data \o zeros(size - Len(f.data)),
           f.pos)

\* File::write_all: the bytes go to the cursor, past the end over a hole
file_write_all(f, bytes) ==
    LET base == IF f.pos > Len(f.data)
                THEN f.data \o zeros(f.pos - Len(f.data)) ELSE f.data
    IN  MkFile(SubSeq(base, 1, f.pos) \o bytes
                 \o SubSeq(base, f.pos + Len(bytes) + 1, Len(base)),
               f.pos + Len(bytes))

\* save_network_info up to the call that fails, or to its end
save_network_info(f, info, io) ==
    CASE io = "rewind_err"  -> f
      [] io = "set_len_err" -> file_rewind(f)
      [] io = "write_err"   -> file_set_len(file_rewind(f), 0)
      [] io = "ok"          ->
            file_write_all(file_set_len(file_rewind(f), 0),
                           join_lines(NetworkInfo_encode(info)))

SaveOutcomes == {"ok", "rewind_err", "set_len_err", "write_err"}

\* records of different encoded lengths, one of them with a padded string
FileRecords ==
    {[CodecBase EXCEPT !.cycle_total_tx = t, !.boot_id = b, !.offset_tx = x] :
         t \in {0, 7, 12345}, b \in {<<"B","1">>, <<>>}, x \in {3, I64_MIN}} \cup
    {[CodecBase EXCEPT !.config.network_save_path = <<"a"," ">>]}

\* what the file can hold when it is opened
FileTexts ==
    { <<>>, <<"s","o","u","r","c","e","_","t","x","=","4",LF>> } \cup
    { join_lines(NetworkInfo_encode(r)) :
        r \in {[CodecBase EXCEPT !.cycle_total_tx = t] : t \in {0, 12345}} }

\* OpenOptions::open: the handle starts at the beginning of the file
FileInit ==
    /\ f_pc = "opened"
    /\ f_data \in FileTexts
    /\ f_pos = 0
    /\ f_info = NoInfo
    /\ f_last = "none"
    /\ f_before = 0
    /\ f_saves = 0

\* file.read_to_string(&mut raw_data)
FileRead ==
    /\ f_pc = "opened"
    /\ f_pos' = file_read_to_string(MkFile(f_data, f_pos)).pos
    /\ f_pc' = "loaded"
    /\ UNCHANGED <<f_data, f_info, f_last, f_before, f_saves>>
    /\ UNCHANGED <<sched_vars, host_vars, saver_vars, pub_vars, task_vars, hist_vars,
                   text_vars>>

\* save_network_info at the end of State Recovery (an Err ends the task) and
\* in the sample loop (an Err is logged and the loop goes on)
FileSave(info, io) ==
    /\ f_pc \in {"loaded", "cycle"}
    /\ f_saves < MaxSaves
    /\ \E f \in {save_network_info(MkFile(f_data, f_pos), info, io)} :
           /\ f_data' = f.data
           /\ f_pos' = f.pos
    /\ f_info' = info
    /\ f_last' = IF io = "ok" THEN "ok" ELSE "err"
    /\ f_before' = Len(f_data)
    /\ f_saves' = IF io = "ok" THEN f_saves + 1 ELSE f_saves
    /\ f_pc' = IF f_pc = "loaded" /\ io # "ok" THEN "stopped" ELSE "cycle"
    /\ UNCHANGED <<sched_vars, host_vars, saver_vars, pub_vars, task_vars, hist_vars,
                   text_vars>>

InitFile == SchedIdle /\ DriverIdle /\ PublisherIdle /\ TasksIdle /\ CodecIdle /\ FileInit

NextFile ==
    \/ FileRead
    \/ \E info \in FileRecords, io \in SaveOutcomes : FileSave(info, io)

SpecFile == InitFile /\ [][NextFile]_vars

\* the record's strings are decoded as they were encoded
PlainStringRecord(info) ==
    /\ info.config.network_save_path \in PlainStrings \cup {CodecConfig.network_save_path}
    /\ info.config.traffic_reset_day \in PlainStrings
    /\ info.boot_id \in PlainStrings \cup {CodecBase.boot_id}

WriterFacesHeldLock ==
    /\ p_impl = "rwlock"
    /\ w_pc = "lock"
    /\ (lock_writer \/ lock_readers > 0)

\* a step in which the writer returns from update_traffic_offset without
\* having taken the lock, the stored pair left as it was
WriterGivesUp ==
    /\ NextPub
    /\ w_pc = "lock"
    /\ w_pc' = "idle"
    /\ TRAFFIC_OFFSET_TX' = TRAFFIC_OFFSET_TX
    /\ TRAFFIC_OFFSET_RX' = TRAFFIC_OFFSET_RX

\* C39: in the reader/writer-lock fallback a writer that cannot acquire the
\* lock returns without changing the stored pair and without blocking:
\* whenever it finds the lock held it can at once take the step that returns
\* with the pair unchanged, so later reads still see the previous pair.
LockWriterGivesUpUnblocked ==
    WriterFacesHeldLock => ENABLED WriterGivesUp
====
